---- MODULE Spec2Model ----
(***************************************************************************)
(* The client-side synchronized data view of the Panchayat database UI:    *)
(* the remote store (villages, citizens, change feed), Home's cached        *)
(* collections and its reload, the citizen wizard's submit, the handlers    *)
(* of Home and of VillageManagement.  Every remote call is two steps: the   *)
(* store executes it, and later the awaiting handler resumes with the       *)
(* result; other events interleave between the two.                          *)
(***************************************************************************)
EXTENDS Integers, Sequences, FiniteSets, TLC

VARIABLES
  rVillages,       \* the store's villages table, rows in store order
  rCitizens,       \* the store's citizens table, rows in store order
  nextVid,         \* the next value of villages.village_id (SERIAL)
  feed,            \* change notifications not yet delivered to Home
  otherWrites,     \* writes done so far by other sessions
  mounted,         \* Home is mounted
  channels,        \* Home's two realtime channels: "subscribed" / "removed"
  released,        \* how many times each channel was removed
  villages,        \* Home.villages
  citizens,        \* Home.citizens
  activeTab,       \* Home.activeTab
  editingCitizen,  \* Home.editingCitizen
  reloads,         \* the fetchData runs in flight
  reloadSerial,    \* the number of fetchData runs started
  appliedReload,   \* the fetchData run whose result was applied last
  ops,             \* the remote writes of this session in flight
  opSerial,        \* the number of user actions that started a remote write
  wizError,        \* CitizenRegistry.error
  vmVillages,      \* VillageManagement.villages
  vmFetch,         \* VillageManagement.fetchVillages: "idle", "pending", "data", "error"
  vmData,          \* the rows fetchVillages read
  selectedVillage, \* VillageManagement.selectedVillage
  lineage,         \* history: the fetch result and the mutations citizens was built from
  last,            \* history: the step taken last
  fetchFailed,     \* history: some select of some fetchData run has failed
  table,           \* CitizenTable: searchTerm, currentPage, searchType, sortField, sortOrder
  wizard,          \* CitizenRegistry: activeTab and the form's values
  uiSteps,         \* the number of form inputs and section changes done so far
  created,         \* history: the citizen the wizard created last
  login,           \* Login: formData, error, isLoading and its credential lookup
  localStorage,    \* the browser's localStorage: the three session keys
  location,        \* the route shown: "/login" or "/"
  budget           \* how many user actions, foreign writes and reloads this run may start

vars == << rVillages, rCitizens, nextVid, feed, otherWrites, mounted, channels,
           released, villages, citizens, activeTab, editingCitizen, reloads,
           reloadSerial, appliedReload, ops, opSerial, wizError, vmVillages,
           vmFetch, vmData, selectedVillage, lineage, last, fetchFailed, table, wizard,
           uiSteps, created, login, localStorage, location, budget >>

storeVars == << rVillages, rCitizens, nextVid >>
vmVars == << vmVillages, vmFetch, vmData, selectedVillage >>
uiVars == << table, wizard, uiSteps, created >>
authVars == << login, localStorage, location >>

----------------------------------------------------------------------------
(* Bounds *)

MaxVillageId == 2
ReloadOther == 1
ReloadReloads == 4
HomeOps == 1
HomeOther == 1
HomeReloads == 2
VillageOps == 1
VillageReloads == 2
HandlerOps == 1
HandlerReloads == 2
FormSteps == 2
CacheOther == 2
KeysOps == 1
KeysOther == 2
CacheReloads == 2
ViewOther == 1
ViewReloads == 3
WizardOps == 1
WizardSteps == 4
MaxRows == 61
MaxPages == 12        \* page counts up to which getPageNumbers is tabulated

(* Values *)

NULL == "null"
NaN == -1
Names == {"n1", "n2"}
Aadhars == {"111111111111", "222222222222"}
VillageIds == 1 .. MaxVillageId
Tables == {"villages", "citizens"}
Events == {"INSERT", "UPDATE", "DELETE"}
HomeTabs == {"dashboard", "villages", "citizens"}

Range(s) == { s[i] : i \in 1 .. Len(s) }

RECURSIVE MapSeq(_, _)
MapSeq(F(_), s) == IF s = << >> THEN << >> ELSE << F(Head(s)) >> \o MapSeq(F, Tail(s))

(* strings, character by character *)
Char(s, i) == SubSeq(s, i, i)
Digits == { ToString(n) : n \in 0 .. 9 }
DigitValue(ch) == CHOOSE n \in 0 .. 9 : ToString(n) = ch

(* the regular expression /^\d+$/ *)
IsDigits(s) == Len(s) > 0 /\ \A i \in 1 .. Len(s) : Char(s, i) \in Digits

(* number.toString() and parseInt(string): the value of the longest prefix *)
(* of digits, NaN when there is none (signs and blanks are never entered)   *)
IdToString(n) == ToString(n)

RECURSIVE ParseDigits(_, _, _)
ParseDigits(s, i, acc) ==
  IF i > Len(s) \/ Char(s, i) \notin Digits THEN acc
  ELSE ParseDigits(s, i + 1, 10 * acc + DigitValue(Char(s, i)))

ParseInt(s) == IF Len(s) = 0 \/ Char(s, 1) \notin Digits THEN NaN ELSE ParseDigits(s, 1, 0)

(* a villages row; rows this model does not write through the village form *)
(* hold one fixed pincode                                                    *)
DefaultPincode == "600001"
VillageRow(id, name) == [village_id |-> id, village_name |-> name, pincode |-> DefaultPincode]
NoVillageRow == VillageRow(0, "")

(* a citizens row; the columns the scenarios do not vary hold fixed values *)
CitizenRow(a, name, vid) ==
  [aadhar_number |-> a, name |-> name, dob |-> "1985-05-15", age |-> 38, gender |-> "male",
   address |-> "House 1", marital_status |-> "single", father_name |-> "fa",
   mother_name |-> "mo", spouse_name |-> NULL, status |-> "alive", education |-> "",
   occupation |-> "", remarks |-> NULL, village_id |-> vid]
NoRow == CitizenRow("", "", 0)

(* a form value of the age field: the text typed into the input, or the     *)
(* number that came with initialData                                         *)
Text(s) == [type |-> "string", text |-> s]
Number(n) == [type |-> "number", text |-> ToString(n)]

(* the wizard's form values as the user enters them: every field a string   *)
FormValues(a, name, vid) ==
  [aadhar_number |-> a, name |-> name, dob |-> "1985-05-15", age |-> Text("38"),
   gender |-> "male", address |-> "House 1", marital_status |-> "single",
   father_name |-> "fa", mother_name |-> "mo", spouse_name |-> "", status |-> "alive",
   education |-> "", occupation |-> "", remarks |-> "", village_id |-> vid]

(* CitizenRegistry.defaultValues without initialData ({}): lines 107-122 *)
BlankValues ==
  [aadhar_number |-> "", name |-> "", dob |-> "", age |-> Text(""), gender |-> "male",
   address |-> "", marital_status |-> "single", father_name |-> "", mother_name |-> "",
   spouse_name |-> "", status |-> "alive", education |-> "", occupation |-> "",
   remarks |-> "", village_id |-> ""]
NoInitialData == BlankValues

(* defaultValues: the blank values overridden by every field of initialData *)
DefaultValues(initialData) == IF initialData = NoInitialData THEN BlankValues ELSE initialData

(* CitizenTable lives in the dashboard tab and CitizenRegistry in the       *)
(* citizens tab: a component that is mounted starts from its initial state   *)
InitialTable ==
  [searchTerm |-> "", currentPage |-> 1, searchType |-> "name",
   sortField |-> "name", sortOrder |-> "asc"]

WizardTabs == << "personal", "family", "socioeconomic" >>

(* opened records the identifier initialData carried when it mounted *)
MountedWizard(initialData) ==
  [activeTab |-> "personal", values |-> DefaultValues(initialData),
   opened |-> initialData.aadhar_number]

NoWizard == MountedWizard(NoInitialData)

(* Home.fetchData maps a villages row to Home's Village shape *)
HomeVillage(v) == [id |-> v.village_id, name |-> v.village_name]

Note(t, e) == [table |-> t, event |-> e]

(* The admins table: the seeded administrator and a second one *)
Admins ==
  << [id |-> 1, username |-> "admin", password |-> "password"],
     [id |-> 2, username |-> "clerk", password |-> "secret"] >>

NoAdmin == [id |-> 0, username |-> "", password |-> ""]

Usernames == {"admin", "Admin", "clerk"}
Passwords == {"password", "Password", "secret"}

InvalidCredentials == "Invalid username or password"

(* localStorage without the session keys; getItem of a missing key is null *)
NoStorage == [isAuthenticated |-> NULL, adminId |-> NULL, adminUsername |-> NULL]

(* the three setItem calls of Login.handleSubmit *)
StoreSession(data) ==
  [isAuthenticated |-> "true", adminId |-> ToString(data.id), adminUsername |-> data.username]

NoLookup == [st |-> "idle", username |-> "", password |-> "", data |-> NoAdmin, error |-> FALSE]

InitialLogin ==
  [formData |-> [username |-> "", password |-> ""], error |-> "", isLoading |-> FALSE,
   call |-> NoLookup]

(* Home is shown to a signed-in administrator *)
SignedIn == location = "/" /\ localStorage = StoreSession(Admins[1]) /\ login = InitialLogin

----------------------------------------------------------------------------
(* The remote store.  Each call returns the outcome and the tables after it. *)

Outcome(okv, vs, cs, nv, evs, d) ==
  [ok |-> okv, villages |-> vs, citizens |-> cs, nextVid |-> nv, events |-> evs, data |-> d]

Rejected == Outcome(FALSE, rVillages, rCitizens, nextVid, << >>, NoVillageRow)

HasCitizen(a) == \E i \in 1 .. Len(rCitizens) : rCitizens[i].aadhar_number = a
HasVillage(id) == \E i \in 1 .. Len(rVillages) : rVillages[i].village_id = id

(* a store that keeps the empty string where it was sent null *)
StoreInsertCitizenBlank(row) ==
  IF HasCitizen(row.aadhar_number) \/ ~HasVillage(row.village_id) \/ row.dob = ""
  THEN Rejected
  ELSE Outcome(TRUE, rVillages,
               Append(rCitizens, [row EXCEPT !.spouse_name = IF @ = NULL THEN "" ELSE @]),
               nextVid, << Note("citizens", "INSERT") >>, NoVillageRow)

(* a citizens table without its primary key *)
StoreInsertCitizenNoKey(row) ==
  IF ~HasVillage(row.village_id) \/ row.dob = ""
  THEN Rejected
  ELSE Outcome(TRUE, rVillages, Append(rCitizens, row), nextVid,
               << Note("citizens", "INSERT") >>, NoVillageRow)

StoreInsertCitizen(row) ==
  IF HasCitizen(row.aadhar_number) \/ ~HasVillage(row.village_id) \/ row.dob = ""
  THEN Rejected
  ELSE Outcome(TRUE, rVillages, Append(rCitizens, row), nextVid,
               << Note("citizens", "INSERT") >>, NoVillageRow)

StoreUpdateCitizen(key, row) ==
  IF ~HasCitizen(key)
  THEN Outcome(TRUE, rVillages, rCitizens, nextVid, << >>, NoVillageRow)
  ELSE IF ~HasVillage(row.village_id) \/ row.dob = ""
          \/ (row.aadhar_number # key /\ HasCitizen(row.aadhar_number))
  THEN Rejected
  ELSE Outcome(TRUE, rVillages,
               [i \in 1 .. Len(rCitizens) |->
                  IF rCitizens[i].aadhar_number = key THEN row ELSE rCitizens[i]],
               nextVid, << Note("citizens", "UPDATE") >>, NoVillageRow)

StoreDeleteCitizen(key) ==
  IF ~HasCitizen(key)
  THEN Outcome(TRUE, rVillages, rCitizens, nextVid, << >>, NoVillageRow)
  ELSE Outcome(TRUE, rVillages,
               SelectSeq(rCitizens, LAMBDA c : c.aadhar_number # key),
               nextVid, << Note("citizens", "DELETE") >>, NoVillageRow)

StoreInsertVillage(name, pincode) ==
  LET row == [VillageRow(nextVid, name) EXCEPT !.pincode = pincode] IN
  Outcome(TRUE, Append(rVillages, row), rCitizens, nextVid + 1,
          << Note("villages", "INSERT") >>, row)

StoreUpdateVillage(id, name, pincode) ==
  IF ~HasVillage(id)
  THEN Outcome(TRUE, rVillages, rCitizens, nextVid, << >>, NoVillageRow)
  ELSE Outcome(TRUE,
               [i \in 1 .. Len(rVillages) |->
                  IF rVillages[i].village_id = id
                  THEN [VillageRow(id, name) EXCEPT !.pincode = pincode] ELSE rVillages[i]],
               rCitizens, nextVid, << Note("villages", "UPDATE") >>, NoVillageRow)

(* ON DELETE CASCADE: the village's citizens go with it, one event per row *)
StoreDeleteVillage(id) ==
  IF ~HasVillage(id)
  THEN Outcome(TRUE, rVillages, rCitizens, nextVid, << >>, NoVillageRow)
  ELSE LET gone == SelectSeq(rCitizens, LAMBDA c : c.village_id = id)
       IN Outcome(TRUE,
                  SelectSeq(rVillages, LAMBDA v : v.village_id # id),
                  SelectSeq(rCitizens, LAMBDA c : c.village_id # id),
                  nextVid,
                  << Note("villages", "DELETE") >>
                     \o [i \in 1 .. Len(gone) |-> Note("citizens", "DELETE")],
                  NoVillageRow)

(* A request: which call, on which key, with which payload *)
Request(call, aadhar, vid, row, name) ==
  [call |-> call, aadhar |-> aadhar, vid |-> vid, row |-> row, name |-> name,
   pincode |-> IF name = "" THEN "" ELSE DefaultPincode]

InsertCitizenReq(row) == Request("insertCitizen", row.aadhar_number, 0, row, "")
UpdateCitizenReq(key, row) == Request("updateCitizen", key, 0, row, "")
DeleteCitizenReq(key) == Request("deleteCitizen", key, 0, NoRow, "")
InsertVillageReq(name) == Request("insertVillage", "", 0, NoRow, name)
UpdateVillageReq(id, name) == Request("updateVillage", "", id, NoRow, name)
DeleteVillageReq(id) == Request("deleteVillage", "", id, NoRow, "")

Execute(req) ==
  CASE req.call = "insertCitizen" -> StoreInsertCitizen(req.row)
    [] req.call = "updateCitizen" -> StoreUpdateCitizen(req.aadhar, req.row)
    [] req.call = "deleteCitizen" -> StoreDeleteCitizen(req.aadhar)
    [] req.call = "insertVillage" -> StoreInsertVillage(req.name, req.pincode)
    [] req.call = "updateVillage" -> StoreUpdateVillage(req.vid, req.name, req.pincode)
    [] req.call = "deleteVillage" -> StoreDeleteVillage(req.vid)

ReqKey(req) == IF req.aadhar # "" THEN req.aadhar ELSE ToString(req.vid)

Commit(out) ==
  /\ rVillages' = out.villages
  /\ rCitizens' = out.citizens
  /\ nextVid' = out.nextVid
  /\ feed' = feed \o out.events

(* history: whether the row the wizard created is still in the table as sent *)
NoCreated == [row |-> NoRow, serial |-> 0, clean |-> FALSE]

RowsOf(cs, a) == SelectSeq(cs, LAMBDA c : c.aadhar_number = a)

Touched(out) ==
  IF created.clean
     /\ RowsOf(out.citizens, created.row.aadhar_number) # RowsOf(rCitizens, created.row.aadhar_number)
  THEN [created EXCEPT !.clean = FALSE] ELSE created

Step(act, h, okv, key, notice) ==
  [act |-> act, h |-> h, ok |-> okv, key |-> key, notice |-> notice]

----------------------------------------------------------------------------
(* Initial state: Home has just mounted; its effect has called fetchData    *)
(* and subscribed both channels.  The store holds the seeded rows.           *)

NewReload(n) == [id |-> n, pc |-> "villages", vdata |-> << >>, cdata |-> << >>, seen |-> << >>]

InitialLineage == [kind |-> "initial", id |-> 0, base |-> << >>, full |-> << >>, muts |-> << >>]

Budget(nOps, nOther, nReloads) ==
  [ops |-> nOps, other |-> nOther, reloads |-> nReloads, ui |-> FormSteps, forms |-> "complete"]

Start(b) ==
  /\ budget = b
  /\ SignedIn
  /\ fetchFailed = FALSE
  /\ rVillages = << VillageRow(1, "n1") >>
  /\ rCitizens = << CitizenRow("111111111111", "n1", 1) >>
  /\ nextVid = 2
  /\ feed = << >>
  /\ otherWrites = 0
  /\ mounted = TRUE
  /\ channels = [t \in Tables |-> "subscribed"]
  /\ released = [t \in Tables |-> 0]
  /\ villages = << >>
  /\ citizens = << >>
  /\ activeTab = "dashboard"
  /\ editingCitizen = NoInitialData
  /\ reloads = { NewReload(1) }
  /\ reloadSerial = 1
  /\ appliedReload = 0
  /\ ops = {}
  /\ opSerial = 0
  /\ wizError = NULL
  /\ vmVillages = << >>
  /\ vmFetch = "idle"
  /\ vmData = << >>
  /\ selectedVillage = NoVillageRow
  /\ lineage = InitialLineage
  /\ table = InitialTable
  /\ wizard = NoWizard
  /\ uiSteps = 0
  /\ created = NoCreated
  /\ last = Step("Init", "", TRUE, "", "none")

(* A state setter of an unmounted component changes nothing *)
SetHome(new, old) == IF mounted THEN new ELSE old

----------------------------------------------------------------------------
(* Home.fetchData *)

(* the villages select: its rows, or an error that ends the run *)
FetchedVillages == rVillages

(* the citizens select answering with the first row only *)
FetchedCitizensCapped == SubSeq(rCitizens, 1, IF Len(rCitizens) > 1 THEN 1 ELSE Len(rCitizens))

(* the citizens select *)
FetchedCitizens == rCitizens

(* fetchData setting villages as soon as the villages select has answered *)
ReloadFetchVillagesEager(r) ==
  /\ r \in reloads /\ r.pc = "villages"
  /\ \E okv \in BOOLEAN :
       /\ reloads' = IF okv
                     THEN (reloads \ {r}) \cup {[r EXCEPT !.pc = "citizens", !.vdata = rVillages]}
                     ELSE reloads \ {r}
       /\ villages' = IF okv THEN SetHome(MapSeq(HomeVillage, rVillages), villages) ELSE villages
       /\ fetchFailed' = (fetchFailed \/ ~okv)
       /\ last' = Step("ReloadFetchVillages", "fetchData", okv, ToString(r.id), "none")
  /\ UNCHANGED << authVars, budget, uiVars, storeVars, feed, otherWrites, mounted, channels, released,
                  citizens, activeTab, editingCitizen, reloadSerial, appliedReload, ops,
                  opSerial, wizError, vmVars, lineage >>

ReloadFetchVillages(r) ==
  /\ r \in reloads /\ r.pc = "villages"
  /\ \E okv \in BOOLEAN :
       /\ reloads' = IF okv
                     THEN (reloads \ {r}) \cup {[r EXCEPT !.pc = "citizens", !.vdata = FetchedVillages]}
                     ELSE reloads \ {r}
       /\ fetchFailed' = (fetchFailed \/ ~okv)
       /\ last' = Step("ReloadFetchVillages", "fetchData", okv, ToString(r.id), "none")
  /\ UNCHANGED << authVars, budget, uiVars, storeVars, feed, otherWrites, mounted, channels, released, villages,
                  citizens, activeTab, editingCitizen, reloadSerial, appliedReload, ops,
                  opSerial, wizError, vmVars, lineage >>

ReloadFetchCitizens(r) ==
  /\ r \in reloads /\ r.pc = "citizens"
  /\ \E okv \in BOOLEAN :
       /\ reloads' = IF okv
                     THEN (reloads \ {r}) \cup
                          {[r EXCEPT !.pc = "apply", !.cdata = FetchedCitizens, !.seen = rCitizens]}
                     ELSE reloads \ {r}
       /\ fetchFailed' = (fetchFailed \/ ~okv)
       /\ last' = Step("ReloadFetchCitizens", "fetchData", okv, ToString(r.id), "none")
  /\ UNCHANGED << authVars, budget, uiVars, storeVars, feed, otherWrites, mounted, channels, released, villages,
                  citizens, activeTab, editingCitizen, reloadSerial, appliedReload, ops,
                  opSerial, wizError, vmVars, lineage >>

(* both selects answered: setVillages(mapped rows); setCitizens(rows) *)
ReloadApply(r) ==
  /\ r \in reloads /\ r.pc = "apply"
  /\ reloads' = reloads \ {r}
  /\ villages' = SetHome(MapSeq(HomeVillage, r.vdata), villages)
  /\ citizens' = SetHome(r.cdata, citizens)
  /\ lineage' = SetHome([kind |-> "fetch", id |-> r.id, base |-> r.cdata, full |-> r.seen, muts |-> << >>],
                        lineage)
  /\ appliedReload' = SetHome(r.id, appliedReload)
  /\ last' = Step("ReloadApply", "fetchData", TRUE, ToString(r.id), "none")
  /\ UNCHANGED << authVars, budget, uiVars, fetchFailed, storeVars, feed, otherWrites, mounted, channels, released, activeTab,
                  editingCitizen, reloadSerial, ops, opSerial, wizError, vmVars >>

----------------------------------------------------------------------------
(* The change feed and Home's two subscriptions *)

(* a callback that skips the reload while another one is in flight *)
OnChangeDedup(n) ==
  IF reloads = {}
  THEN /\ reloads' = { NewReload(reloadSerial + 1) }
       /\ reloadSerial' = reloadSerial + 1
  ELSE UNCHANGED << reloads, reloadSerial >>

(* the callback of either subscription: () => { fetchData(); } *)
OnChange(n) ==
  /\ reloads' = reloads \cup { NewReload(reloadSerial + 1) }
  /\ reloadSerial' = reloadSerial + 1

NotifyDeliver ==
  /\ feed # << >>
  /\ channels[Head(feed).table] = "subscribed"
  /\ reloadSerial < budget.reloads
  /\ feed' = Tail(feed)
  /\ OnChange(Head(feed))
  /\ last' = Step("NotifyDeliver", Head(feed).table, TRUE, Head(feed).event, "none")
  /\ UNCHANGED << authVars, budget, uiVars, fetchFailed, storeVars, otherWrites, mounted, channels, released, villages, citizens,
                  activeTab, editingCitizen, appliedReload, ops, opSerial, wizError, vmVars,
                  lineage >>

(* a notification for a removed channel reaches no callback *)
NotifyDrop ==
  /\ feed # << >>
  /\ channels[Head(feed).table] = "removed"
  /\ feed' = Tail(feed)
  /\ last' = Step("NotifyDrop", Head(feed).table, TRUE, Head(feed).event, "none")
  /\ UNCHANGED << authVars, budget, uiVars, fetchFailed, storeVars, otherWrites, mounted, channels, released, villages, citizens,
                  activeTab, editingCitizen, reloads, reloadSerial, appliedReload, ops,
                  opSerial, wizError, vmVars, lineage >>

(* a cleanup that removes the villages channel only *)
CleanupVillagesOnly ==
  [t \in Tables |-> IF t = "villages" THEN "removed" ELSE channels[t]]

(* the effect's cleanup: removeChannel on both subscriptions *)
Cleanup ==
  [t \in Tables |-> "removed"]

Teardown ==
  /\ mounted
  /\ mounted' = FALSE
  /\ channels' = Cleanup
  /\ released' = [t \in Tables |-> IF Cleanup[t] # channels[t] THEN released[t] + 1 ELSE released[t]]
  /\ last' = Step("Teardown", "Home", TRUE, "", "none")
  /\ UNCHANGED << authVars, budget, uiVars, fetchFailed, storeVars, feed, otherWrites, villages, citizens, activeTab,
                  editingCitizen, reloads, reloadSerial, appliedReload, ops, opSerial,
                  wizError, vmVars, lineage >>

----------------------------------------------------------------------------
(* Writes by other sessions *)

OtherRequests ==
  { InsertCitizenReq(CitizenRow(a, n, v)) : a \in Aadhars, n \in Names, v \in VillageIds }
  \cup { UpdateCitizenReq(a, CitizenRow(a, n, v)) : a \in Aadhars, n \in Names, v \in VillageIds }
  \cup { DeleteCitizenReq(a) : a \in Aadhars }
  \cup { InsertVillageReq(n) : n \in Names }
  \cup { UpdateVillageReq(v, n) : v \in VillageIds, n \in Names }
  \cup { DeleteVillageReq(v) : v \in VillageIds }

OtherWrite ==
  /\ otherWrites < budget.other
  /\ \E req \in OtherRequests :
       LET out == Execute(req) IN
       /\ out.ok
       /\ out.events # << >>
       /\ out.nextVid <= MaxVillageId + 1
       /\ Commit(out)
       /\ last' = Step("OtherWrite", req.call, TRUE, ReqKey(req), "none")
       /\ created' = Touched(out)
  /\ otherWrites' = otherWrites + 1
  /\ UNCHANGED << authVars, budget, table, wizard, uiSteps, fetchFailed, mounted, channels, released, villages, citizens, activeTab,
                  editingCitizen, reloads, reloadSerial, appliedReload, ops, opSerial,
                  wizError, vmVars, lineage >>

----------------------------------------------------------------------------
(* Remote writes of this session.  An op is one handler run awaiting a       *)
(* remote call: the handler, the request, the call's state ("sent", then     *)
(* "ok" or "err" once the store has answered), and what the handler's        *)
(* closure captured when it was invoked.                                      *)

WizHandlers == {"wizInsert", "wizUpdate"}
VmHandlers == {"vmAdd", "vmEdit", "vmDelete"}

HomeOp(h, req) ==
  [id |-> opSerial + 1, h |-> h, st |-> "sent", req |-> req, data |-> NoVillageRow,
   baseV |-> villages, baseC |-> citizens, baseVm |-> << >>, lin |-> lineage,
   sel |-> NoVillageRow, live |-> TRUE]

VmOp(h, req) ==
  [id |-> opSerial + 1, h |-> h, st |-> "sent", req |-> req, data |-> NoVillageRow,
   baseV |-> << >>, baseC |-> << >>, baseVm |-> vmVillages, lin |-> InitialLineage,
   sel |-> selectedVillage, live |-> TRUE]

(* the store answers a pending call: it runs it, or the call fails *)
StoreExec(o) ==
  /\ o \in ops /\ o.st = "sent"
  /\ \E reach \in BOOLEAN :
       LET out == IF reach THEN Execute(o.req) ELSE Rejected IN
       /\ out.nextVid <= MaxVillageId + 1
       /\ Commit(out)
       /\ ops' = (ops \ {o}) \cup
                 {[o EXCEPT !.st = IF out.ok THEN "ok" ELSE "err", !.data = out.data]}
       /\ last' = Step("StoreExec", o.h, out.ok, ReqKey(o.req), "none")
       /\ created' = IF o.h = "wizInsert" /\ out.ok
                     THEN [row |-> o.req.row, serial |-> reloadSerial, clean |-> TRUE]
                     ELSE Touched(out)
  /\ UNCHANGED << authVars, budget, table, wizard, uiSteps, fetchFailed, otherWrites, mounted, channels, released, villages, citizens, activeTab,
                  editingCitizen, reloads, reloadSerial, appliedReload, opSerial, wizError,
                  vmVars, lineage >>

(* Unmounting a tab's content discards that component instance: the calls   *)
(* it awaits still finish, but its state setters no longer do anything.      *)
TabOps(S, new) ==
  { IF \/ (o.h \in WizHandlers /\ activeTab = "citizens" /\ new # "citizens")
       \/ (o.h \in VmHandlers /\ activeTab = "villages" /\ new # "villages")
    THEN [o EXCEPT !.live = FALSE] ELSE o : o \in S }

SwitchTab(new) ==
  /\ activeTab' = new
  /\ wizError' = IF activeTab = "citizens" /\ new # "citizens" THEN NULL ELSE wizError
  /\ IF (activeTab = "villages") # (new = "villages")
     THEN /\ vmVillages' = << >>
          /\ vmData' = << >>
          /\ selectedVillage' = NoVillageRow
          /\ vmFetch' = IF new = "villages" THEN "pending" ELSE "idle"
     ELSE UNCHANGED vmVars

(* switching Home's tab unmounts the components of the tab left *)
Remount(new, initialData) ==
  /\ table' = IF (activeTab = "dashboard") # (new = "dashboard") THEN InitialTable ELSE table
  /\ wizard' = IF (activeTab = "citizens") = (new = "citizens") THEN wizard
               ELSE IF new = "citizens" THEN MountedWizard(initialData) ELSE NoWizard

SelectTab(t) ==
  /\ mounted /\ t \in HomeTabs /\ t # activeTab
  /\ SwitchTab(t)
  /\ Remount(t, editingCitizen)
  /\ ops' = TabOps(ops, t)
  /\ last' = Step("SelectTab", t, TRUE, "", "none")
  /\ UNCHANGED << authVars, budget, uiSteps, created, fetchFailed, storeVars, feed, otherWrites, mounted, channels, released, villages,
                  citizens, editingCitizen, reloads, reloadSerial, appliedReload, opSerial,
                  lineage >>

(* CitizenTable.onEdit: {...citizen, village_id: citizen.village_id?.toString() || ""} *)
CitizenToEdit(c) == [c EXCEPT !.village_id = IdToString(@), !.age = Number(@)]

OnEdit(c) ==
  /\ mounted /\ activeTab = "dashboard" /\ c \in Range(citizens)
  /\ editingCitizen' = CitizenToEdit(c)
  /\ SwitchTab("citizens")
  /\ Remount("citizens", CitizenToEdit(c))
  /\ ops' = TabOps(ops, "citizens")
  /\ last' = Step("OnEdit", "Home", TRUE, c.aadhar_number, "none")
  /\ UNCHANGED << authVars, budget, uiSteps, created, fetchFailed, storeVars, feed, otherWrites, mounted, channels, released, villages,
                  citizens, reloads, reloadSerial, appliedReload, opSerial, lineage >>

----------------------------------------------------------------------------
(* CitizenRegistry: the form, its sections and handleSubmit *)

Genders == {"male", "female", "other"}
MaritalStatuses == {"single", "married", "divorced", "widowed"}
Statuses == {"alive", "dead"}

(* z.string(): null is not a string *)
IsString(v) == v # NULL
MinLength(v, n) == IsString(v) /\ Len(v) >= n

(* a schema without the minimum length of the address *)
citizenFormSchemaAnyAddress(d) ==
  /\ IsString(d.aadhar_number) /\ Len(d.aadhar_number) = 12 /\ IsDigits(d.aadhar_number)
  /\ IsString(d.village_id)
  /\ MinLength(d.name, 2)
  /\ IsString(d.dob)
  /\ d.age.type = "string" /\ IsDigits(d.age.text)
  /\ d.gender \in Genders
  /\ IsString(d.address)
  /\ d.marital_status \in MaritalStatuses
  /\ MinLength(d.father_name, 2)
  /\ MinLength(d.mother_name, 2)
  /\ IsString(d.spouse_name)
  /\ d.status \in Statuses
  /\ IsString(d.education)
  /\ IsString(d.occupation)
  /\ IsString(d.remarks)

(* citizenFormSchema *)
citizenFormSchema(d) ==
  /\ IsString(d.aadhar_number) /\ Len(d.aadhar_number) = 12 /\ IsDigits(d.aadhar_number)
  /\ IsString(d.village_id)
  /\ MinLength(d.name, 2)
  /\ IsString(d.dob)
  /\ d.age.type = "string" /\ IsDigits(d.age.text)
  /\ d.gender \in Genders
  /\ MinLength(d.address, 5)
  /\ d.marital_status \in MaritalStatuses
  /\ MinLength(d.father_name, 2)
  /\ MinLength(d.mother_name, 2)
  /\ IsString(d.spouse_name)
  /\ d.status \in Statuses
  /\ IsString(d.education)
  /\ IsString(d.occupation)
  /\ IsString(d.remarks)

(* value || null *)
OrNull(v) == IF v = "" THEN NULL ELSE v

(* citizenData: the form values converted to a citizens row *)
CitizenData(d) ==
  [aadhar_number |-> d.aadhar_number, name |-> d.name, dob |-> d.dob,
   age |-> ParseInt(d.age.text), gender |-> d.gender, address |-> d.address,
   marital_status |-> d.marital_status, father_name |-> d.father_name,
   mother_name |-> d.mother_name, spouse_name |-> OrNull(d.spouse_name),
   status |-> d.status, education |-> d.education, occupation |-> d.occupation,
   remarks |-> OrNull(d.remarks), village_id |-> ParseInt(d.village_id)]

(* what the user can enter: the identifier input is disabled when editing;  *)
(* the village is one of the listed villages or the value already there      *)
KeyInputs ==
  IF editingCitizen.aadhar_number # "" THEN {editingCitizen.aadhar_number} ELSE Aadhars

VillageInputs ==
  { IdToString(villages[i].id) : i \in 1 .. Len(villages) } \cup { wizard.values.village_id }

FormInputs ==
  { FormValues(a, n, v) : a \in KeyInputs, n \in Names, v \in VillageInputs }

(* entries that differ from a complete form in one field *)
OtherInputs ==
  LET b == FormValues(CHOOSE a \in KeyInputs : TRUE, "n1", wizard.values.village_id) IN
  { [b EXCEPT !.name = "n"], [b EXCEPT !.address = "Hous"], [b EXCEPT !.age = Text("3x")],
    [b EXCEPT !.age = Text("")], [b EXCEPT !.father_name = "f"], [b EXCEPT !.mother_name = ""],
    [b EXCEPT !.spouse_name = "sp", !.remarks = "moved"] }
  \cup (IF editingCitizen.aadhar_number # "" THEN {}
        ELSE { [b EXCEPT !.aadhar_number = "11111111111"],
               [b EXCEPT !.aadhar_number = "11111111111x"] })

IsSubmitting == \E o \in ops : o.h \in WizHandlers /\ o.live

WizardMounted == mounted /\ activeTab = "citizens"

(* the user fills in the form (field.onChange) *)
WizardInput(d) ==
  /\ WizardMounted
  /\ uiSteps < budget.ui
  /\ d \in FormInputs \cup (IF budget.forms = "all" THEN OtherInputs ELSE {})
  /\ d # wizard.values
  /\ wizard' = [wizard EXCEPT !.values = d]
  /\ uiSteps' = uiSteps + 1
  /\ last' = Step("WizardInput", "CitizenRegistry", TRUE, d.aadhar_number, "none")
  /\ UNCHANGED << authVars, budget, table, created, fetchFailed, storeVars, feed, otherWrites, mounted,
                  channels, released, villages, citizens, activeTab, editingCitizen, reloads,
                  reloadSerial, appliedReload, ops, opSerial, wizError, vmVars, lineage >>

SetWizardTab(t, act) ==
  /\ WizardMounted
  /\ uiSteps < budget.ui
  /\ wizard' = [wizard EXCEPT !.activeTab = t]
  /\ uiSteps' = uiSteps + 1
  /\ last' = Step(act, "CitizenRegistry", TRUE, t, "none")
  /\ UNCHANGED << authVars, budget, table, created, fetchFailed, storeVars, feed, otherWrites, mounted,
                  channels, released, villages, citizens, activeTab, editingCitizen, reloads,
                  reloadSerial, appliedReload, ops, opSerial, wizError, vmVars, lineage >>

SectionIndex(t) == CHOOSE i \in 1 .. Len(WizardTabs) : WizardTabs[i] = t

(* Tabs onValueChange={setActiveTab}: a click on one of the three triggers *)
WizardSelectSection(t) ==
  /\ t \in Range(WizardTabs) /\ t # wizard.activeTab
  /\ SetWizardTab(t, "WizardSelectSection")

(* the Next button of the personal and family sections *)
WizardNextSection ==
  /\ wizard.activeTab \in {"personal", "family"}
  /\ SetWizardTab(WizardTabs[SectionIndex(wizard.activeTab) + 1], "WizardNextSection")

(* the Back button of the family and socioeconomic sections *)
WizardBack ==
  /\ wizard.activeTab \in {"family", "socioeconomic"}
  /\ SetWizardTab(WizardTabs[SectionIndex(wizard.activeTab) - 1], "WizardBack")

(* a submit that inserts whatever initialData holds *)
SubmitRequestInsert(d) == [h |-> "wizInsert", req |-> InsertCitizenReq(CitizenData(d))]

(* the first remote call of handleSubmit: update when initialData has an    *)
(* identifier, insert otherwise *)
SubmitRequest(d) ==
  IF editingCitizen.aadhar_number # ""
  THEN [h |-> "wizUpdate", req |-> UpdateCitizenReq(editingCitizen.aadhar_number, CitizenData(d))]
  ELSE [h |-> "wizInsert", req |-> InsertCitizenReq(CitizenData(d))]

(* the submit button exists in the socioeconomic section only and is        *)
(* disabled while submitting; form.handleSubmit calls handleSubmit only with *)
(* values the schema accepts                                                  *)
CanSubmit == WizardMounted /\ wizard.activeTab = "socioeconomic" /\ ~IsSubmitting

WizardSubmit(d) ==
  /\ CanSubmit
  /\ opSerial < budget.ops
  /\ d = wizard.values
  /\ citizenFormSchema(d)
  /\ wizError' = NULL
  /\ ops' = ops \cup { HomeOp(SubmitRequest(d).h, SubmitRequest(d).req) }
  /\ opSerial' = opSerial + 1
  /\ last' = Step("WizardSubmit", SubmitRequest(d).h, TRUE, d.aadhar_number, "none")
  /\ UNCHANGED << authVars, budget, uiVars, fetchFailed, storeVars, feed, otherWrites, mounted, channels, released, villages,
                  citizens, activeTab, editingCitizen, reloads, reloadSerial, appliedReload,
                  vmVars, lineage >>

(* a submit the resolver rejects: the field messages show, nothing is sent *)
WizardInvalidSubmit ==
  /\ CanSubmit
  /\ ~citizenFormSchema(wizard.values)
  /\ last' = Step("WizardInvalidSubmit", "CitizenRegistry", FALSE,
                  wizard.values.aadhar_number, "invalid")
  /\ UNCHANGED << authVars, budget, uiVars, fetchFailed, storeVars, feed, otherWrites, mounted, channels,
                  released, villages, citizens, activeTab, editingCitizen, reloads,
                  reloadSerial, appliedReload, ops, opSerial, wizError, vmVars, lineage >>

(* after the awaited insert/update: on error the catch sets the error; on   *)
(* success onAdd/onUpdate is called, which runs Home's handler up to its own *)
(* remote call *)
WizardNext(o) ==
  IF o.h = "wizInsert"
  THEN [o EXCEPT !.h = "homeAddCitizen", !.st = "sent", !.live = TRUE,
                 !.req = InsertCitizenReq(o.req.row)]
  ELSE [o EXCEPT !.h = "homeUpdateCitizen", !.st = "sent", !.live = TRUE,
                 !.req = UpdateCitizenReq(o.req.row.aadhar_number, o.req.row)]

(* form.reset(defaultValues) at the end of the insert branch *)
FormReset(o) ==
  IF o.h = "wizInsert" /\ o.st = "ok" /\ o.live
  THEN [wizard EXCEPT !.values = DefaultValues(editingCitizen)]
  ELSE wizard

WizardResume(o) ==
  /\ o \in ops /\ o.h \in WizHandlers /\ o.st # "sent"
  /\ IF o.st = "ok"
     THEN /\ ops' = (ops \ {o}) \cup { WizardNext(o) }
          /\ UNCHANGED wizError
          /\ last' = Step("WizardResume", o.h, TRUE, ReqKey(o.req), "success")
     ELSE /\ ops' = ops \ {o}
          /\ wizError' = IF o.live THEN "error" ELSE wizError
          /\ last' = Step("WizardResume", o.h, FALSE, ReqKey(o.req),
                          IF o.live THEN "error" ELSE "none")
  /\ wizard' = FormReset(o)
  /\ UNCHANGED << authVars, budget, table, uiSteps, created, fetchFailed, storeVars, feed, otherWrites, mounted, channels, released, villages,
                  citizens, activeTab, editingCitizen, reloads, reloadSerial, appliedReload,
                  opSerial, vmVars, lineage >>

----------------------------------------------------------------------------
(* Home's citizen handlers *)

AddMut(lin, o) == [lin EXCEPT !.muts = Append(@, [req |-> o.req, acked |-> o.st = "ok"])]

(* setCitizens([...citizens, citizen]) *)
AddCitizenLocal(base, c) == Append(base, c)

(* setCitizens(citizens.map(...)) *)
UpdateCitizenLocal(base, u) ==
  [i \in 1 .. Len(base) |-> IF base[i].aadhar_number = u.aadhar_number THEN u ELSE base[i]]

(* setCitizens(citizens.filter(...)) *)
DeleteCitizenLocal(base, a) == SelectSeq(base, LAMBDA c : c.aadhar_number # a)

HomeAddCitizenResume(o) ==
  /\ o \in ops /\ o.h = "homeAddCitizen" /\ o.st # "sent"
  /\ ops' = ops \ {o}
  /\ IF o.st = "ok"
     THEN /\ citizens' = SetHome(AddCitizenLocal(o.baseC, o.req.row), citizens)
          /\ lineage' = SetHome(AddMut(o.lin, o), lineage)
     ELSE UNCHANGED << citizens, lineage >>
  /\ last' = Step("HomeAddCitizenResume", o.h, o.st = "ok", ReqKey(o.req), "none")
  /\ UNCHANGED << authVars, budget, uiVars, fetchFailed, storeVars, feed, otherWrites, mounted, channels, released, villages,
                  activeTab, editingCitizen, reloads, reloadSerial, appliedReload, opSerial,
                  wizError, vmVars >>

HomeUpdateCitizenResume(o) ==
  /\ o \in ops /\ o.h = "homeUpdateCitizen" /\ o.st # "sent"
  /\ IF o.st = "ok"
     THEN /\ citizens' = SetHome(UpdateCitizenLocal(o.baseC, o.req.row), citizens)
          /\ lineage' = SetHome(AddMut(o.lin, o), lineage)
          /\ IF mounted
             THEN /\ SwitchTab("citizens")
                  /\ Remount("citizens", editingCitizen)
                  /\ ops' = TabOps(ops \ {o}, "citizens")
             ELSE UNCHANGED << activeTab, wizError, vmVars, table, wizard >> /\ ops' = ops \ {o}
     ELSE /\ UNCHANGED << citizens, lineage, activeTab, wizError, vmVars, table, wizard >>
          /\ ops' = ops \ {o}
  /\ last' = Step("HomeUpdateCitizenResume", o.h, o.st = "ok", ReqKey(o.req), "none")
  /\ UNCHANGED << authVars, budget, uiSteps, created, fetchFailed, storeVars, feed, otherWrites, mounted, channels, released, villages,
                  editingCitizen, reloads, reloadSerial, appliedReload, opSerial >>

(* CitizenTable's delete button: onDelete(citizen.aadhar_number) *)
DeleteCitizen(a) ==
  /\ mounted /\ activeTab = "dashboard"
  /\ opSerial < budget.ops
  /\ \E i \in 1 .. Len(citizens) : citizens[i].aadhar_number = a
  /\ ops' = ops \cup { HomeOp("homeDeleteCitizen", DeleteCitizenReq(a)) }
  /\ opSerial' = opSerial + 1
  /\ last' = Step("DeleteCitizen", "homeDeleteCitizen", TRUE, a, "none")
  /\ UNCHANGED << authVars, budget, uiVars, fetchFailed, storeVars, feed, otherWrites, mounted, channels, released, villages,
                  citizens, activeTab, editingCitizen, reloads, reloadSerial, appliedReload,
                  wizError, vmVars, lineage >>

(* handleDeleteCitizen without its `if (error) throw error` *)
HomeDeleteCitizenResumeUnchecked(o) ==
  /\ o \in ops /\ o.h = "homeDeleteCitizen" /\ o.st # "sent"
  /\ ops' = ops \ {o}
  /\ citizens' = SetHome(DeleteCitizenLocal(o.baseC, o.req.aadhar), citizens)
  /\ lineage' = SetHome(AddMut(o.lin, o), lineage)
  /\ last' = Step("HomeDeleteCitizenResume", o.h, o.st = "ok", ReqKey(o.req), "none")
  /\ UNCHANGED << authVars, budget, uiVars, fetchFailed, storeVars, feed, otherWrites, mounted, channels,
                  released, villages, activeTab, editingCitizen, reloads, reloadSerial,
                  appliedReload, opSerial, wizError, vmVars >>

HomeDeleteCitizenResume(o) ==
  /\ o \in ops /\ o.h = "homeDeleteCitizen" /\ o.st # "sent"
  /\ ops' = ops \ {o}
  /\ IF o.st = "ok"
     THEN /\ citizens' = SetHome(DeleteCitizenLocal(o.baseC, o.req.aadhar), citizens)
          /\ lineage' = SetHome(AddMut(o.lin, o), lineage)
     ELSE UNCHANGED << citizens, lineage >>
  /\ last' = Step("HomeDeleteCitizenResume", o.h, o.st = "ok", ReqKey(o.req), "none")
  /\ UNCHANGED << authVars, budget, uiVars, fetchFailed, storeVars, feed, otherWrites, mounted, channels, released, villages,
                  activeTab, editingCitizen, reloads, reloadSerial, appliedReload, opSerial,
                  wizError, vmVars >>

NextCitizen ==
  \/ \E t \in HomeTabs \ {"villages"} : SelectTab(t)
  \/ \E c \in Range(citizens) : OnEdit(c)
  \/ \E d \in FormInputs \cup OtherInputs : WizardInput(d)
  \/ \E t \in Range(WizardTabs) : WizardSelectSection(t)
  \/ WizardSubmit(wizard.values)
  \/ \E a \in Aadhars : DeleteCitizen(a)
  \/ \E o \in ops : StoreExec(o)
  \/ \E o \in ops : WizardResume(o)
  \/ \E o \in ops : HomeAddCitizenResume(o)
  \/ \E o \in ops : HomeUpdateCitizenResume(o)
  \/ \E o \in ops : HomeDeleteCitizenResume(o)

----------------------------------------------------------------------------
(* VillageManagement: its own villages state, loaded once when it mounts;   *)
(* it takes no props, so Home's village handlers are never invoked by it.    *)

VMFetchRead ==
  /\ vmFetch = "pending"
  /\ \E okv \in BOOLEAN :
       /\ vmFetch' = IF okv THEN "data" ELSE "error"
       /\ vmData' = IF okv THEN rVillages ELSE << >>
       /\ last' = Step("VMFetchRead", "fetchVillages", okv, "", "none")
  /\ UNCHANGED << authVars, budget, uiVars, fetchFailed, storeVars, feed, otherWrites, mounted, channels, released, villages,
                  citizens, activeTab, editingCitizen, reloads, reloadSerial, appliedReload,
                  ops, opSerial, wizError, vmVillages, selectedVillage, lineage >>

VMFetchResume ==
  /\ vmFetch \in {"data", "error"}
  /\ vmFetch' = "idle"
  /\ vmData' = << >>
  /\ vmVillages' = IF vmFetch = "data" THEN vmData ELSE vmVillages
  /\ last' = Step("VMFetchResume", "fetchVillages", vmFetch = "data", "",
                  IF vmFetch = "data" THEN "none" ELSE "error")
  /\ UNCHANGED << authVars, budget, uiVars, fetchFailed, storeVars, feed, otherWrites, mounted, channels, released, villages,
                  citizens, activeTab, editingCitizen, reloads, reloadSerial, appliedReload,
                  ops, opSerial, wizError, selectedVillage, lineage >>

(* openEditDialog / openDeleteDialog *)
VMOpenDialog(v) ==
  /\ mounted /\ activeTab = "villages" /\ v \in Range(vmVillages)
  /\ selectedVillage # v
  /\ selectedVillage' = v
  /\ last' = Step("VMOpenDialog", "VillageManagement", TRUE, ToString(v.village_id), "none")
  /\ UNCHANGED << authVars, budget, uiVars, fetchFailed, storeVars, feed, otherWrites, mounted, channels, released, villages,
                  citizens, activeTab, editingCitizen, reloads, reloadSerial, appliedReload,
                  ops, opSerial, wizError, vmVillages, vmFetch, vmData, lineage >>

StartVmOp(h, req) ==
  /\ mounted /\ activeTab = "villages"
  /\ opSerial < budget.ops
  /\ ops' = ops \cup { VmOp(h, req) }
  /\ opSerial' = opSerial + 1
  /\ last' = Step("StartVmOp", h, TRUE, ReqKey(req), "none")
  /\ UNCHANGED << authVars, budget, uiVars, fetchFailed, storeVars, feed, otherWrites, mounted, channels, released, villages,
                  citizens, activeTab, editingCitizen, reloads, reloadSerial, appliedReload,
                  wizError, vmVars, lineage >>

(* the add and edit forms of VillageManagement *)
VillageForm(name, district, pincode) ==
  [village_name |-> name, district_name |-> district, pincode |-> pincode]

Pincodes == {DefaultPincode, "60001", "6000012", "60000a", ""}

VillageForms ==
  { VillageForm(n, "d1", p) : n \in Names, p \in Pincodes }
  \cup { VillageForm("n", "d1", DefaultPincode), VillageForm("n1", "d", DefaultPincode) }

(* a schema that takes any pincode made of digits *)
villageSchemaAnyLength(data) ==
  /\ MinLength(data.village_name, 2)
  /\ MinLength(data.district_name, 2)
  /\ IsString(data.pincode) /\ IsDigits(data.pincode)

(* villageSchema; /^\d{6}$/ *)
villageSchema(data) ==
  /\ MinLength(data.village_name, 2)
  /\ MinLength(data.district_name, 2)
  /\ IsString(data.pincode) /\ Len(data.pincode) = 6 /\ IsDigits(data.pincode)

(* the village columns of a validated form as sent; district_name is sent   *)
(* too and is not varied here                                                *)
VillageFormInsertReq(data) ==
  [InsertVillageReq(data.village_name) EXCEPT !.pincode = data.pincode]

VillageFormUpdateReq(id, data) ==
  [UpdateVillageReq(id, data.village_name) EXCEPT !.pincode = data.pincode]

(* addForm.handleSubmit(handleAddVillage) *)
VMAddVillage(data) ==
  /\ villageSchema(data)
  /\ StartVmOp("vmAdd", VillageFormInsertReq(data))

(* editForm.handleSubmit(handleEditVillage) *)
VMEditVillage(data) ==
  /\ villageSchema(data)
  /\ selectedVillage # NoVillageRow
  /\ StartVmOp("vmEdit", VillageFormUpdateReq(selectedVillage.village_id, data))

(* a submit of either form that the resolver rejects: messages, no call *)
VMInvalidSubmit(data) ==
  /\ mounted /\ activeTab = "villages"
  /\ ~villageSchema(data)
  /\ last' = Step("VMInvalidSubmit", "VillageManagement", FALSE, "", "invalid")
  /\ UNCHANGED << authVars, budget, uiVars, fetchFailed, storeVars, feed, otherWrites, mounted, channels,
                  released, villages, citizens, activeTab, editingCitizen, reloads,
                  reloadSerial, appliedReload, ops, opSerial, wizError, vmVars, lineage >>

VMDeleteVillage ==
  /\ selectedVillage # NoVillageRow
  /\ StartVmOp("vmDelete", DeleteVillageReq(selectedVillage.village_id))

(* setVillages([...villages, newVillage]) *)
VmAddLocal(base, row) == Append(base, row)

(* villages.map(v => v.village_id === selected.village_id ? {...v, ...data} : v) *)
VmEditLocal(base, sel, name, pincode) ==
  [i \in 1 .. Len(base) |->
     IF base[i].village_id = sel.village_id
     THEN [base[i] EXCEPT !.village_name = name, !.pincode = pincode] ELSE base[i]]

(* villages.filter(v => v.village_id !== selected.village_id) *)
VmDeleteLocal(base, sel) == SelectSeq(base, LAMBDA v : v.village_id # sel.village_id)

VmAfter(o) ==
  CASE o.h = "vmAdd" -> VmAddLocal(o.baseVm, o.data)
    [] o.h = "vmEdit" -> VmEditLocal(o.baseVm, o.sel, o.req.name, o.req.pincode)
    [] o.h = "vmDelete" -> VmDeleteLocal(o.baseVm, o.sel)

(* the continuation of handleAddVillage / handleEditVillage /               *)
(* handleDeleteVillage: the list changes on success, a toast either way     *)
VMResume(o) ==
  /\ o \in ops /\ o.h \in VmHandlers /\ o.st # "sent"
  /\ ops' = ops \ {o}
  /\ IF o.st = "ok" /\ o.live
     THEN /\ vmVillages' = VmAfter(o)
          /\ selectedVillage' = IF o.h = "vmAdd" THEN selectedVillage ELSE NoVillageRow
     ELSE UNCHANGED << vmVillages, selectedVillage >>
  /\ last' = Step("VMResume", o.h, o.st = "ok", ReqKey(o.req),
                  IF o.st = "ok" THEN "success" ELSE "error")
  /\ UNCHANGED << authVars, budget, uiVars, fetchFailed, storeVars, feed, otherWrites, mounted, channels, released, villages,
                  citizens, activeTab, editingCitizen, reloads, reloadSerial, appliedReload,
                  opSerial, wizError, vmFetch, vmData, lineage >>

NextVillage ==
  \/ \E t \in HomeTabs \ {"citizens"} : SelectTab(t)
  \/ VMFetchRead
  \/ VMFetchResume
  \/ \E v \in Range(vmVillages) : VMOpenDialog(v)
  \/ \E data \in VillageForms : VMAddVillage(data)
  \/ \E data \in VillageForms : VMEditVillage(data)
  \/ \E data \in VillageForms : VMInvalidSubmit(data)
  \/ VMDeleteVillage
  \/ \E o \in ops : StoreExec(o)
  \/ \E o \in ops : VMResume(o)

----------------------------------------------------------------------------
(* Home's village handlers, as Home defines them.  No component calls them: *)
(* they are driven here directly, as a caller holding Home's props would.    *)

StartHomeOp(h, req) ==
  /\ mounted
  /\ opSerial < budget.ops
  /\ ops' = ops \cup { HomeOp(h, req) }
  /\ opSerial' = opSerial + 1
  /\ last' = Step("StartHomeOp", h, TRUE, ReqKey(req), "none")
  /\ UNCHANGED << authVars, budget, uiVars, fetchFailed, storeVars, feed, otherWrites, mounted, channels, released, villages,
                  citizens, activeTab, editingCitizen, reloads, reloadSerial, appliedReload,
                  wizError, vmVars, lineage >>

HomeAddVillage(name) == StartHomeOp("homeAddVillage", InsertVillageReq(name))

HomeUpdateVillage(id, name) ==
  /\ \E i \in 1 .. Len(villages) : villages[i].id = id
  /\ StartHomeOp("homeUpdateVillage", UpdateVillageReq(id, name))

HomeDeleteVillage(id) ==
  /\ \E i \in 1 .. Len(villages) : villages[i].id = id
  /\ StartHomeOp("homeDeleteVillage", DeleteVillageReq(id))

(* setVillages([...villages, newVillage]) *)
AddVillageLocal(base, row) == Append(base, HomeVillage(row))

(* villages.map(v => v.id === updatedVillage.id ? updatedVillage : v) *)
UpdateVillageLocal(base, id, name) ==
  [i \in 1 .. Len(base) |-> IF base[i].id = id THEN [id |-> id, name |-> name] ELSE base[i]]

(* villages.filter(v => v.id !== id) *)
DeleteVillageLocal(base, id) == SelectSeq(base, LAMBDA v : v.id # id)

(* citizens.filter(c => c.village_id !== id) *)
CascadeLocal(base, id) == SelectSeq(base, LAMBDA c : c.village_id # id)

HomeVillagesAfter(o) ==
  CASE o.h = "homeAddVillage" -> AddVillageLocal(o.baseV, o.data)
    [] o.h = "homeUpdateVillage" -> UpdateVillageLocal(o.baseV, o.req.vid, o.req.name)
    [] o.h = "homeDeleteVillage" -> DeleteVillageLocal(o.baseV, o.req.vid)

HomeVillageResume(o) ==
  /\ o \in ops /\ o.h \in {"homeAddVillage", "homeUpdateVillage", "homeDeleteVillage"}
  /\ o.st # "sent"
  /\ ops' = ops \ {o}
  /\ IF o.st = "ok"
     THEN /\ villages' = SetHome(HomeVillagesAfter(o), villages)
          /\ IF o.h = "homeDeleteVillage"
             THEN /\ citizens' = SetHome(CascadeLocal(o.baseC, o.req.vid), citizens)
                  /\ lineage' = SetHome(AddMut(o.lin, o), lineage)
             ELSE UNCHANGED << citizens, lineage >>
     ELSE UNCHANGED << villages, citizens, lineage >>
  /\ last' = Step("HomeVillageResume", o.h, o.st = "ok", ReqKey(o.req), "none")
  /\ UNCHANGED << authVars, budget, uiVars, fetchFailed, storeVars, feed, otherWrites, mounted, channels, released, activeTab,
                  editingCitizen, reloads, reloadSerial, appliedReload, opSerial, wizError,
                  vmVars >>

NextHomeVillage ==
  \/ \E n \in Names : HomeAddVillage(n)
  \/ \E v \in VillageIds, n \in Names : HomeUpdateVillage(v, n)
  \/ \E v \in VillageIds : HomeDeleteVillage(v)
  \/ \E o \in ops : HomeVillageResume(o)

----------------------------------------------------------------------------
(* CitizenTable: filter, sort and pagination of its citizens prop *)

itemsPerPage == 10
maxVisiblePages == 5
Ellipsis == 0

(* the citizens prop: Home.filteredCitizens with no village selected and an *)
(* empty searchQuery, which lets every citizen through                       *)
TableCitizens == citizens

UpperCase == "ABCDEFGHIJKLMNOPQRSTUVWXYZ"
LowerCase == "abcdefghijklmnopqrstuvwxyz"
Alphabet == "0123456789" \o LowerCase

IndexIn(str, ch) ==
  IF \E i \in 1 .. Len(str) : Char(str, i) = ch
  THEN CHOOSE i \in 1 .. Len(str) : Char(str, i) = ch ELSE 0

Letters == { Char(UpperCase \o Alphabet, i) : i \in 1 .. Len(UpperCase \o Alphabet) }

LowerOf ==
  [ch \in Letters |->
     IF IndexIn(UpperCase, ch) > 0 THEN Char(LowerCase, IndexIn(UpperCase, ch)) ELSE ch]

LowerChar(ch) == IF ch \in Letters THEN LowerOf[ch] ELSE ch

(* String.prototype.toLowerCase *)
RECURSIVE ToLowerCase(_)
ToLowerCase(str) ==
  IF Len(str) = 0 THEN "" ELSE LowerChar(Char(str, 1)) \o ToLowerCase(Tail(str))

(* String.prototype.includes *)
Includes(str, part) ==
  \/ Len(part) = 0
  \/ \E i \in 1 .. Len(str) - Len(part) + 1 : SubSeq(str, i, i + Len(part) - 1) = part

(* a filter callback that compares the name as typed *)
MatchesSearchExact(citizen) ==
  IF table.searchTerm = "" THEN TRUE
  ELSE IF table.searchType = "name" THEN Includes(citizen.name, table.searchTerm)
  ELSE Includes(citizen.aadhar_number, table.searchTerm)

(* the callback of citizens.filter *)
MatchesSearch(citizen) ==
  IF table.searchTerm = "" THEN TRUE
  ELSE IF table.searchType = "name"
  THEN Includes(ToLowerCase(citizen.name), ToLowerCase(table.searchTerm))
  ELSE Includes(citizen.aadhar_number, table.searchTerm)

filteredCitizens == SelectSeq(TableCitizens, MatchesSearch)

Sign(n) == IF n < 0 THEN -1 ELSE IF n > 0 THEN 1 ELSE 0

(* String.prototype.localeCompare on digits and letters: character by       *)
(* character ignoring case, a prefix before its extensions, and for strings  *)
(* equal but for case, the lower-case letter first                            *)
RankOf == [ch \in Letters |-> IndexIn(Alphabet, LowerOf[ch])]
Rank(ch) == IF ch \in Letters THEN RankOf[ch] ELSE 0

RECURSIVE CompareBy(_, _, _, _)
CompareBy(K(_), a, b, i) ==
  IF i > Len(a) /\ i > Len(b) THEN 0
  ELSE IF i > Len(a) THEN -1
  ELSE IF i > Len(b) THEN 1
  ELSE IF K(Char(a, i)) # K(Char(b, i)) THEN Sign(K(Char(a, i)) - K(Char(b, i)))
  ELSE CompareBy(K, a, b, i + 1)

CaseOf == [ch \in Letters |-> IF IndexIn(UpperCase, ch) > 0 THEN 1 ELSE 0]
CaseRank(ch) == IF ch \in Letters THEN CaseOf[ch] ELSE 0

localeCompare(a, b) ==
  IF CompareBy(Rank, a, b, 1) # 0 THEN CompareBy(Rank, a, b, 1) ELSE CompareBy(CaseRank, a, b, 1)

(* the comparator handed to sort *)
SortCompare(a, b) ==
  IF table.sortField = "name"
  THEN IF table.sortOrder = "asc" THEN localeCompare(a.name, b.name)
                                  ELSE localeCompare(b.name, a.name)
  ELSE IF table.sortField = "aadhar_number"
  THEN IF table.sortOrder = "asc" THEN localeCompare(a.aadhar_number, b.aadhar_number)
                                  ELSE localeCompare(b.aadhar_number, a.aadhar_number)
  ELSE IF table.sortField = "age"
  THEN IF table.sortOrder = "asc" THEN a.age - b.age ELSE b.age - a.age
  ELSE 0

(* Array.prototype.sort is stable: an element is moved in front of those   *)
(* the comparator puts after it, never in front of one equal to it           *)
ComesBefore(a, b) == SortCompare(a, b) < 0

(* a sort that also moves an element in front of those equal to it *)
SortReversingTies(s) == SortSeq(s, LAMBDA a, b : SortCompare(a, b) <= 0)

Sort(s) == SortSeq(s, ComesBefore)

sortedCitizens == Sort(filteredCitizens)

(* Math.ceil(length / itemsPerPage) *)
PageCount(n) == (n + itemsPerPage - 1) \div itemsPerPage

totalPages == PageCount(Len(sortedCitizens))

StartIndex(page) == (page - 1) * itemsPerPage

(* a slice that also takes the element at end *)
SliceInclusive(s, start, end) ==
  LET to == IF end + 1 > Len(s) THEN Len(s) ELSE end + 1 IN SubSeq(s, start + 1, to)

(* Array.prototype.slice(start, end), zero-based, end excluded *)
Slice(s, start, end) ==
  LET from == IF start < 0 THEN (IF Len(s) + start < 0 THEN 0 ELSE Len(s) + start) ELSE start
      to == IF end > Len(s) THEN Len(s) ELSE end
  IN SubSeq(s, from + 1, to)

PageOf(s, page) == Slice(s, StartIndex(page), StartIndex(page) + itemsPerPage)

paginatedCitizens == PageOf(sortedCitizens, table.currentPage)

Upto(a, b) == [i \in 1 .. (IF b >= a THEN b - a + 1 ELSE 0) |-> a + i - 1]

(* getPageNumbers with its first branch taken up to page 4 *)
PageNumbersLate(T, C) ==
  IF T <= maxVisiblePages THEN Upto(1, T)
  ELSE IF C <= 4 THEN Upto(1, 4) \o << Ellipsis, T >>
  ELSE IF C >= T - 2 THEN << 1, Ellipsis >> \o Upto(T - 3, T)
  ELSE << 1, Ellipsis, C - 1, C, C + 1, Ellipsis, T >>

PageNumbers(T, C) ==
  IF T <= maxVisiblePages THEN Upto(1, T)
  ELSE IF C <= 3 THEN Upto(1, 4) \o << Ellipsis, T >>
  ELSE IF C >= T - 2 THEN << 1, Ellipsis >> \o Upto(T - 3, T)
  ELSE << 1, Ellipsis, C - 1, C, C + 1, Ellipsis, T >>

getPageNumbers == PageNumbers(totalPages, table.currentPage)

TableMounted == mounted /\ activeTab = "dashboard"

SetTable(new, act, key) ==
  /\ TableMounted
  /\ table' = new
  /\ last' = Step(act, "CitizenTable", TRUE, key, "none")
  /\ UNCHANGED << authVars, budget, wizard, uiSteps, created, fetchFailed, storeVars, feed, otherWrites,
                  mounted, channels, released, villages, citizens, activeTab, editingCitizen,
                  reloads, reloadSerial, appliedReload, ops, opSerial, wizError, vmVars,
                  lineage >>

SearchTerms == {"", "RAJ", "2345", "zz"}

(* the search input's onChange *)
SetSearchTerm(term) ==
  /\ term # table.searchTerm
  /\ SetTable([table EXCEPT !.searchTerm = term], "SetSearchTerm", term)

(* the By Name and By Aadhar buttons *)
SetSearchType(type) ==
  /\ type # table.searchType
  /\ SetTable([table EXCEPT !.searchType = type], "SetSearchType", type)

(* a click on a column header; the header exists while rows are listed *)
ClickSort(field) ==
  /\ Len(filteredCitizens) > 0
  /\ SetTable(IF table.sortField = field
              THEN [table EXCEPT !.sortOrder = IF @ = "asc" THEN "desc" ELSE "asc"]
              ELSE [table EXCEPT !.sortField = field, !.sortOrder = "asc"],
              "ClickSort", field)

(* the page links: the pagination bar exists while totalPages > 1 *)
PageLinks ==
  LET T == totalPages IN
  IF T > 1 THEN Range(PageNumbers(T, table.currentPage)) \ {Ellipsis} ELSE {}

ClickPage ==
  \E page \in PageLinks :
    /\ page # table.currentPage
    /\ SetTable([table EXCEPT !.currentPage = page], "ClickPage", ToString(page))

(* PaginationPrevious: Math.max(prev - 1, 1); inert on page 1 *)
PreviousPage ==
  /\ table.currentPage # 1
  /\ totalPages > 1
  /\ SetTable([table EXCEPT !.currentPage = IF @ - 1 > 1 THEN @ - 1 ELSE 1], "PreviousPage", "")

(* PaginationNext: Math.min(prev + 1, totalPages); inert on the last page *)
NextPage ==
  LET T == totalPages IN
  /\ T > 1
  /\ table.currentPage # T
  /\ SetTable([table EXCEPT !.currentPage = IF @ + 1 < T THEN @ + 1 ELSE T], "NextPage", "")

(* the rows of a loaded table: unique identifiers, recurring names and ages *)
RowNames == << "Rajesh", "amit", "Priya", "raj", "Amit" >>
RowAges == << 38, 33, 28, 38 >>
Pad2(i) == IF i < 10 THEN "0" \o ToString(i) ELSE ToString(i)

TableRow(i) ==
  [CitizenRow(Pad2(i) \o (IF i % 3 = 0 THEN "9876543210" ELSE "1234567890"),
              RowNames[(i % Len(RowNames)) + 1], 1)
     EXCEPT !.age = RowAges[(i % Len(RowAges)) + 1]]

SnapshotSizes == {0, 10, 11, 25, MaxRows}

Snapshots == [n \in SnapshotSizes |-> [i \in 1 .. n |-> TableRow(n + 1 - i)]]

Snapshot(n) == Snapshots[n]

(* Home's citizens replaced by the result of a later reload of a table that *)
(* other sessions have rewritten                                             *)
ReplaceSnapshot(n) ==
  /\ TableMounted
  /\ Snapshot(n) # citizens
  /\ rCitizens' = Snapshot(n)
  /\ citizens' = Snapshot(n)
  /\ lineage' = [kind |-> "fetch", id |-> appliedReload, base |-> Snapshot(n),
                 full |-> Snapshot(n), muts |-> << >>]
  /\ last' = Step("ReplaceSnapshot", "Home", TRUE, ToString(n), "none")
  /\ UNCHANGED << authVars, budget, uiVars, fetchFailed, rVillages, nextVid, feed, otherWrites, mounted,
                  channels, released, villages, activeTab, editingCitizen, reloads,
                  reloadSerial, appliedReload, ops, opSerial, wizError, vmVars >>

NextTable ==
  \/ \E term \in SearchTerms : SetSearchTerm(term)
  \/ \E type \in {"name", "aadhar"} : SetSearchType(type)
  \/ \E field \in {"name", "aadhar_number", "age"} : ClickSort(field)
  \/ ClickPage
  \/ PreviousPage
  \/ NextPage
  \/ \E n \in SnapshotSizes : ReplaceSnapshot(n)

(* Home after its first load, showing the dashboard *)
StartTable ==
  /\ budget = Budget(0, 0, 1)
  /\ SignedIn
  /\ fetchFailed = FALSE
  /\ rVillages = << VillageRow(1, "n1") >>
  /\ \E n \in SnapshotSizes : rCitizens = Snapshot(n)
  /\ nextVid = 2
  /\ feed = << >>
  /\ otherWrites = 0
  /\ mounted = TRUE
  /\ channels = [t \in Tables |-> "subscribed"]
  /\ released = [t \in Tables |-> 0]
  /\ villages = MapSeq(HomeVillage, rVillages)
  /\ citizens = rCitizens
  /\ activeTab = "dashboard"
  /\ editingCitizen = NoInitialData
  /\ reloads = {}
  /\ reloadSerial = 1
  /\ appliedReload = 1
  /\ ops = {}
  /\ opSerial = 0
  /\ wizError = NULL
  /\ vmVillages = << >>
  /\ vmFetch = "idle"
  /\ vmData = << >>
  /\ selectedVillage = NoVillageRow
  /\ lineage = [kind |-> "fetch", id |-> 1, base |-> rCitizens, full |-> rCitizens,
                muts |-> << >>]
  /\ table = InitialTable
  /\ wizard = NoWizard
  /\ uiSteps = 0
  /\ created = NoCreated
  /\ last = Step("Init", "", TRUE, "", "none")

SpecTable == StartTable /\ [][NextTable]_vars

----------------------------------------------------------------------------
(* Login (pages/Login.tsx) and the logout button of Home's header *)

homeVars ==
  << storeVars, feed, otherWrites, mounted, channels, released, villages, citizens,
     activeTab, editingCitizen, reloads, reloadSerial, appliedReload, ops, opSerial,
     wizError, vmVars, lineage, fetchFailed, uiVars, budget >>

(* handleChange: setFormData({...prev, [name]: value}) *)
LoginChange(name, value) ==
  /\ location = "/login"
  /\ login.formData[name] # value
  /\ login' = [login EXCEPT !.formData[name] = value]
  /\ last' = Step("LoginChange", "Login", TRUE, name, "none")
  /\ UNCHANGED << homeVars, localStorage, location >>

(* the form's submit: both inputs are `required`, the button is disabled   *)
(* while isLoading; setError(""), setIsLoading(true), then the select       *)
LoginSubmit ==
  /\ location = "/login"
  /\ ~login.isLoading
  /\ login.formData.username # "" /\ login.formData.password # ""
  /\ login' = [login EXCEPT !.error = "", !.isLoading = TRUE,
                            !.call = [NoLookup EXCEPT !.st = "sent",
                                                      !.username = login.formData.username,
                                                      !.password = login.formData.password]]
  /\ last' = Step("LoginSubmit", "Login", TRUE, login.formData.username, "none")
  /\ UNCHANGED << homeVars, localStorage, location >>

(* a lookup that ignores the password *)
SingleAdminByUsername(username, password) ==
  LET rows == SelectSeq(Admins, LAMBDA a : a.username = username) IN
  IF Len(rows) = 1 THEN [data |-> rows[1], error |-> FALSE]
  ELSE [data |-> NoAdmin, error |-> TRUE]

(* from("admins").select("*").eq("username", u).eq("password", p).single(): *)
(* the one matching row, or an error when the rows matched are not one      *)
SingleAdmin(username, password) ==
  LET rows == SelectSeq(Admins, LAMBDA a : a.username = username /\ a.password = password) IN
  IF Len(rows) = 1 THEN [data |-> rows[1], error |-> FALSE]
  ELSE [data |-> NoAdmin, error |-> TRUE]

(* the store answers the select, or the request fails *)
AdminsSelect ==
  /\ login.call.st = "sent"
  /\ \E reach \in BOOLEAN :
       LET res == IF reach THEN SingleAdmin(login.call.username, login.call.password)
                  ELSE [data |-> NoAdmin, error |-> TRUE] IN
       /\ login' = [login EXCEPT !.call.st = "done", !.call.data = res.data,
                                 !.call.error = res.error]
       /\ last' = Step("AdminsSelect", "Login", reach, login.call.username, "none")
  /\ UNCHANGED << homeVars, localStorage, location >>

(* handleSubmit after the awaited select *)
LoginResume ==
  /\ login.call.st = "done"
  /\ IF login.call.error \/ login.call.data = NoAdmin
     THEN /\ login' = [login EXCEPT !.error = InvalidCredentials, !.isLoading = FALSE,
                                    !.call = NoLookup]
          /\ last' = Step("LoginResume", "Login", FALSE, login.call.username, "error")
          /\ UNCHANGED << localStorage, location >>
     ELSE /\ localStorage' = StoreSession(login.call.data)
          /\ location' = "/"
          /\ login' = InitialLogin
          /\ last' = Step("LoginResume", "Login", TRUE, login.call.username, "none")
  /\ UNCHANGED homeVars

(* the Logout button: three removeItem calls, then window.location.href = "/login" *)
Logout ==
  /\ location = "/"
  /\ localStorage' = NoStorage
  /\ location' = "/login"
  /\ login' = InitialLogin
  /\ last' = Step("Logout", "Home", TRUE, "", "none")
  /\ UNCHANGED homeVars

NextLogin ==
  \/ \E value \in Usernames : LoginChange("username", value)
  \/ \E value \in Passwords : LoginChange("password", value)
  \/ LoginSubmit
  \/ AdminsSelect
  \/ LoginResume
  \/ Logout

(* the login page, opened with no session; Home is not mounted yet *)
StartLogin ==
  /\ budget = Budget(0, 0, 0)
  /\ location = "/login" /\ localStorage = NoStorage /\ login = InitialLogin
  /\ fetchFailed = FALSE
  /\ rVillages = << VillageRow(1, "n1") >>
  /\ rCitizens = << CitizenRow("111111111111", "n1", 1) >>
  /\ nextVid = 2
  /\ feed = << >>
  /\ otherWrites = 0
  /\ mounted = FALSE
  /\ channels = Cleanup
  /\ released = [t \in Tables |-> 0]
  /\ villages = << >>
  /\ citizens = << >>
  /\ activeTab = "dashboard"
  /\ editingCitizen = NoInitialData
  /\ reloads = {}
  /\ reloadSerial = 0
  /\ appliedReload = 0
  /\ ops = {}
  /\ opSerial = 0
  /\ wizError = NULL
  /\ vmVillages = << >>
  /\ vmFetch = "idle"
  /\ vmData = << >>
  /\ selectedVillage = NoVillageRow
  /\ lineage = InitialLineage
  /\ table = InitialTable
  /\ wizard = NoWizard
  /\ uiSteps = 0
  /\ created = NoCreated
  /\ last = Step("Init", "", TRUE, "", "none")

SpecLogin == StartLogin /\ [][NextLogin]_vars

----------------------------------------------------------------------------
(* The specifications *)

NextFetch ==
  \/ \E r \in reloads : ReloadFetchVillages(r)
  \/ \E r \in reloads : ReloadFetchCitizens(r)
  \/ \E r \in reloads : ReloadApply(r)
  \/ NotifyDeliver

NextSync ==
  \/ NextFetch
  \/ OtherWrite

NextReload ==
  \/ NextSync
  \/ NotifyDrop
  \/ Teardown

SpecReload == Start(Budget(0, ReloadOther, ReloadReloads)) /\ [][NextReload]_vars

(* Home's cache against two writes of other sessions *)
SpecCache == Start(Budget(0, CacheOther, CacheReloads)) /\ [][NextSync]_vars

NextHome == NextSync \/ NextCitizen

SpecHome == Start(Budget(HomeOps, HomeOther, HomeReloads)) /\ [][NextHome]_vars

(* CitizenRegistry on its own: Home has loaded, the user works the form *)
WizardBudget == [Budget(WizardOps, 0, 0) EXCEPT !.ui = WizardSteps, !.forms = "all"]

(* Home after its first fetchData has been applied *)
Loaded(b) ==
  /\ budget = b
  /\ SignedIn
  /\ fetchFailed = FALSE
  /\ rVillages = << VillageRow(1, "n1") >>
  /\ rCitizens = << CitizenRow("111111111111", "n1", 1) >>
  /\ nextVid = 2
  /\ feed = << >>
  /\ otherWrites = 0
  /\ mounted = TRUE
  /\ channels = [t \in Tables |-> "subscribed"]
  /\ released = [t \in Tables |-> 0]
  /\ villages = MapSeq(HomeVillage, rVillages)
  /\ citizens = rCitizens
  /\ activeTab = "dashboard"
  /\ editingCitizen = NoInitialData
  /\ reloads = {}
  /\ reloadSerial = 1
  /\ appliedReload = 1
  /\ ops = {}
  /\ opSerial = 0
  /\ wizError = NULL
  /\ vmVillages = << >>
  /\ vmFetch = "idle"
  /\ vmData = << >>
  /\ selectedVillage = NoVillageRow
  /\ lineage = [kind |-> "fetch", id |-> 1, base |-> rCitizens, full |-> rCitizens,
                muts |-> << >>]
  /\ table = InitialTable
  /\ wizard = NoWizard
  /\ uiSteps = 0
  /\ created = NoCreated
  /\ last = Step("Init", "", TRUE, "", "none")

StartWizard == Loaded(WizardBudget)

NextWizard ==
  \/ \E t \in HomeTabs \ {"villages"} : SelectTab(t)
  \/ \E c \in Range(citizens) : OnEdit(c)
  \/ \E d \in FormInputs \cup OtherInputs : WizardInput(d)
  \/ \E t \in Range(WizardTabs) : WizardSelectSection(t)
  \/ WizardNextSection
  \/ WizardBack
  \/ WizardSubmit(wizard.values)
  \/ WizardInvalidSubmit
  \/ \E o \in ops : StoreExec(o)
  \/ \E o \in ops : WizardResume(o)
  \/ \E o \in ops : HomeAddCitizenResume(o)
  \/ \E o \in ops : HomeUpdateCitizenResume(o)

SpecWizard == StartWizard /\ [][NextWizard]_vars

(* Home loaded, one handler run of this session against two writes of      *)
(* others whose notifications have not been delivered yet                   *)
NextKeys == OtherWrite \/ NextCitizen

SpecKeys == Loaded(Budget(KeysOps, KeysOther, 0)) /\ [][NextKeys]_vars

(* the village tab left open while other sessions write and Home reloads *)
NextView ==
  \/ NextSync
  \/ \E t \in HomeTabs \ {"citizens"} : SelectTab(t)
  \/ VMFetchRead
  \/ VMFetchResume

SpecView == Start(Budget(0, ViewOther, ViewReloads)) /\ [][NextView]_vars

NextVillages == NextFetch \/ NextVillage

SpecVillages == Start(Budget(VillageOps, 0, VillageReloads)) /\ [][NextVillages]_vars

(* every handler, one user action at a time *)
NextHandlers == NextFetch \/ NextCitizen \/ NextVillage \/ NextHomeVillage

SpecHandlers == Start(Budget(HandlerOps, 0, HandlerReloads)) /\ [][NextHandlers]_vars

(* the program as wired *)
Init == Start(Budget(HomeOps, HomeOther, HomeReloads))

Next == NextReload \/ NextCitizen \/ NextVillage

Spec == Init /\ [][Next]_vars

----------------------------------------------------------------------------
(* Properties *)

LocalChanged == villages' # villages \/ citizens' # citizens \/ vmVillages' # vmVillages

HandlerActs ==
  {"WizardSubmit", "DeleteCitizen", "StartVmOp", "StartHomeOp", "StoreExec", "WizardResume",
   "HomeAddCitizenResume", "HomeUpdateCitizenResume", "HomeDeleteCitizenResume", "VMResume",
   "HomeVillageResume"}

(* the op whose handler takes this step *)
Acting(o) == o \in ops /\ o \notin ops' /\ last'.h = o.h /\ last'.key = ReqKey(o.req)

HasKey(cs, a) == \E i \in 1 .. Len(cs) : cs[i].aadhar_number = a

\* C1: a step of a create, update or delete handler changes a local collection
\* only when it is the handler's continuation after the store answered its own
\* remote write with success; invoking the handler, the store's execution of
\* the call and the continuation after a failure change no local collection.
C1_ConfirmThenApply ==
  [][ (last'.act \in HandlerActs /\ LocalChanged)
        => \E o \in ops : Acting(o) /\ o.st = "ok" /\ last'.act \notin {"StoreExec"} ]_vars

C1_Witness ==
  /\ last.act = "HomeVillageResume" /\ last.h = "homeDeleteVillage" /\ last.ok
  /\ villages = << >> /\ citizens = << >>

\* C2: once the wizard's insert of c was acknowledged, c is in Home's citizens
\* when the create path (CitizenRegistry.handleSubmit, then onAdd =
\* Home.handleAddCitizen) completes; a failed wizard insert raises an error and
\* leaves the collection unchanged.
C2_CreateUpsertsLocally ==
  [][ /\ (last'.act = "HomeAddCitizenResume" /\ mounted) => HasKey(citizens', last'.key)
      /\ \A o \in ops :
           (Acting(o) /\ o.h = "wizInsert" /\ o.st = "err" /\ o.live)
             => (citizens' = citizens /\ last'.notice = "error") ]_vars

\* C3: after an acknowledged delete of village V from the village-management
\* view, V is not in the view's list, no cached citizen has village_id = V, and
\* every other village and citizen held before is still there.
C3_VillageDeleteCascades ==
  [][ \A o \in ops :
        (Acting(o) /\ o.h = "vmDelete" /\ o.st = "ok" /\ o.live)
          => /\ \A v \in Range(vmVillages') : v.village_id # o.req.vid
             /\ \A c \in Range(citizens') : c.village_id # o.req.vid
             /\ \A v \in Range(vmVillages) : v.village_id # o.req.vid => v \in Range(vmVillages')
             /\ \A c \in Range(citizens) : c.village_id # o.req.vid => c \in Range(citizens') ]_vars

\* C4: when a remote update issued while updating a citizen fails (the wizard's
\* or the one in Home.handleUpdateCitizen), the citizens collection is left as
\* it was and an error is shown to the user.
C4_FailedUpdateIsolated ==
  [][ \A o \in ops :
        (Acting(o) /\ o.h \in {"wizUpdate", "homeUpdateCitizen"} /\ o.st = "err" /\ o.live)
          => (citizens' = citizens /\ last'.notice = "error") ]_vars

\* C5: a fetchData run changes neither collection until both selects have
\* answered; a failed select ends the run with both collections as they were;
\* when both succeed, villages becomes the mapped villages rows and citizens the
\* citizens rows, each exactly the table read by its select.
C5_ReloadAllOrNothing ==
  [][ \A r \in reloads :
        (r \notin reloads' /\ last'.h = "fetchData" /\ last'.key = ToString(r.id))
          => CASE last'.act = "ReloadApply" /\ mounted ->
                    /\ villages' = MapSeq(HomeVillage, r.vdata)
                    /\ citizens' = r.cdata
               [] last'.act = "ReloadFetchVillages" /\ last'.ok ->
                    /\ villages' = villages /\ citizens' = citizens
                    /\ \E q \in reloads' : q.id = r.id /\ q.vdata = rVillages
               [] last'.act = "ReloadFetchCitizens" /\ last'.ok ->
                    /\ villages' = villages /\ citizens' = citizens
                    /\ \E q \in reloads' : q.id = r.id /\ q.cdata = rCitizens
               [] OTHER -> villages' = villages /\ citizens' = citizens ]_vars

C5_Witness ==
  /\ last.act = "ReloadFetchCitizens" /\ ~last.ok
  /\ villages # << >> /\ citizens # << >>
  /\ Range(citizens) # Range(rCitizens)

(* the local effect of an acknowledged mutation *)
LocalEffect(req, cs) ==
  CASE req.call = "insertCitizen" -> Append(cs, req.row)
    [] req.call = "updateCitizen" ->
         [i \in 1 .. Len(cs) |-> IF cs[i].aadhar_number = req.row.aadhar_number THEN req.row ELSE cs[i]]
    [] req.call = "deleteCitizen" -> SelectSeq(cs, LAMBDA c : c.aadhar_number # req.aadhar)
    [] req.call = "deleteVillage" -> SelectSeq(cs, LAMBDA c : c.village_id # req.vid)
    [] OTHER -> cs

RECURSIVE Replay(_, _)
Replay(muts, cs) ==
  IF muts = << >> THEN cs ELSE Replay(Tail(muts), LocalEffect(Head(muts).req, cs))

LayeredOnOneFetch ==
  /\ citizens = Replay(lineage.muts, lineage.base)
  /\ lineage.base = lineage.full
  /\ \A i \in 1 .. Len(lineage.muts) : lineage.muts[i].acked

C7_LastStartedWins ==
  [][ appliedReload' < appliedReload => (villages' = villages /\ citizens' = citizens) ]_vars

InSync ==
  /\ Range(villages) = { HomeVillage(v) : v \in Range(rVillages) }
  /\ Range(citizens) = Range(rCitizens)

Quiescent ==
  /\ mounted /\ ~fetchFailed
  /\ feed = << >> /\ reloads = {} /\ ops = {}

\* C8: once nothing is pending any more (every notification delivered, every
\* reload and local mutation completed, no fetch failed) and the store no longer
\* changes, Home's villages and citizens equal the store's tables.
C8_EventuallyConsistent == Quiescent => InSync

\* C9: while the subscription is active, a pending notification can always be
\* delivered (budget permitting) and its delivery starts one more fetchData run
\* from its first select, whatever the event and whatever runs are in flight.
C9_NotifyStartsReload ==
  /\ [](feed # << >> /\ channels[Head(feed).table] = "subscribed"
          /\ reloadSerial < budget.reloads => ENABLED NotifyDeliver)
  /\ [][ (feed # << >> /\ feed' = Tail(feed) /\ channels[Head(feed).table] = "subscribed")
           => /\ reloadSerial' = reloadSerial + 1
              /\ reloads' = reloads \cup { NewReload(reloadSerial + 1) }
              /\ Cardinality(reloads') = Cardinality(reloads) + 1 ]_vars

C9_Witness ==
  /\ last.act = "NotifyDeliver" /\ last.key = "DELETE"
  /\ Cardinality(reloads) >= 2
  /\ \E r \in reloads : r.pc = "apply"

\* C10: tearing Home down releases each of the two subscriptions exactly once,
\* and from then on no notification starts a fetchData run.
C10_TeardownReleasesOnce ==
  [][ /\ \A t \in Tables : released'[t] <= 1
      /\ ~mounted' => \A t \in Tables : released'[t] = 1
      /\ ~mounted => /\ reloadSerial' = reloadSerial
                      /\ { r.id : r \in reloads' } \subseteq { r.id : r \in reloads } ]_vars

C10_Witness ==
  /\ ~mounted /\ last.act = "NotifyDrop" /\ last.h = "citizens"
  /\ reloads = {}

(* citizens.find(x => x.aadhar_number === a): the first row with that key *)
Lookup(cs, a) == IF RowsOf(cs, a) = << >> THEN NoRow ELSE Head(RowsOf(cs, a))

RECURSIVE ConcatPages(_, _, _)
ConcatPages(s, page, last_page) ==
  IF page > last_page THEN << >>
  ELSE PageOf(s, page) \o ConcatPages(s, page + 1, last_page)

\* C12: the pages 1 .. ceil(n/10) of the filtered and sorted sequence, each of
\* at most 10 rows starting at (page-1)*10, concatenated in page order, are
\* the sequence itself: every element once, in order.
C12_PagesPartition ==
  LET sorted == sortedCitizens IN
  /\ ConcatPages(sorted, 1, PageCount(Len(sorted))) = sorted
  /\ \A page \in 1 .. PageCount(Len(sorted)) :
        LET rows == PageOf(sorted, page) IN
        /\ Len(rows) \in 1 .. 10
        /\ \A k \in 1 .. Len(rows) : rows[k] = sorted[(page - 1) * 10 + k]

C12_Witness ==
  /\ Len(sortedCitizens) = 25 /\ table.searchTerm = ""
  /\ table.currentPage = 3 /\ Len(paginatedCitizens) = 5
  /\ last.act = "ClickPage"

ClampPage(page, pageCount) ==
  IF page < 1 THEN 1
  ELSE IF page > pageCount THEN (IF pageCount < 1 THEN 1 ELSE pageCount)
  ELSE page

\* C13: in every state the rows CitizenTable displays are those of a valid
\* page: the current page index brought into 1 .. pageCount (the last page
\* when it is beyond, page 1 when it is below), so that a filtered result
\* that is not empty never displays an empty page.
C13_DisplayedPageValid ==
  LET sorted == sortedCitizens IN
  /\ PageOf(sorted, table.currentPage)
        = PageOf(sorted, ClampPage(table.currentPage, PageCount(Len(sorted))))
  /\ Len(sorted) > 0 => Len(PageOf(sorted, table.currentPage)) > 0

SortKey(citizen) == citizen[table.sortField]

KeyCompare(a, b) ==
  IF table.sortField = "age" THEN Sign(a.age - b.age)
  ELSE Sign(localeCompare(SortKey(a), SortKey(b)))

WithKey(s, key) == LET HasIt(citizen) == SortKey(citizen) = key IN SelectSeq(s, HasIt)

\* C14: the sorted sequence holds exactly the records of the filtered
\* sequence, each neighbouring pair is in the order of the selected key and
\* direction, and the records of one key value appear in the sorted sequence
\* in the order they have in the filtered sequence, ascending and descending.
C14_SortStablePermutation ==
  LET sorted == sortedCitizens
      filtered == filteredCitizens
  IN /\ Len(sorted) = Len(filtered)
     /\ Range(sorted) = Range(filtered)
     /\ \A i \in 1 .. Len(sorted) - 1 :
           IF table.sortOrder = "asc" THEN KeyCompare(sorted[i], sorted[i + 1]) <= 0
                                      ELSE KeyCompare(sorted[i], sorted[i + 1]) >= 0
     /\ \A key \in {SortKey(citizen) : citizen \in Range(filtered)} :
           WithKey(sorted, key) = WithKey(filtered, key)

C14_Witness ==
  /\ table.sortField = "age" /\ table.sortOrder = "desc" /\ last.act = "ClickSort"
  /\ Len(sortedCitizens) = 25
  /\ sortedCitizens # filteredCitizens
  /\ sortedCitizens[1].age = 38 /\ sortedCitizens[2].age = 38
  /\ sortedCitizens[1] = WithKey(filteredCitizens, 38)[1]
  /\ sortedCitizens[2] = WithKey(filteredCitizens, 38)[2]

CasePairs ==
  UNION { { << Char(UpperCase, i), Char(LowerCase, i) >>,
            << Char(LowerCase, i), Char(UpperCase, i) >> } : i \in 1 .. Len(UpperCase) }

SameIgnoringCase(a, b) == a = b \/ << a, b >> \in CasePairs

ContainsIgnoringCase(str, term) ==
  \E at \in 0 .. Len(str) - Len(term) :
     \A k \in 1 .. Len(term) : SameIgnoringCase(Char(str, at + k), Char(term, k))

ContainsRaw(str, term) ==
  \E at \in 0 .. Len(str) - Len(term) :
     \A k \in 1 .. Len(term) : Char(str, at + k) = Char(term, k)

Wanted(citizen) ==
  \/ table.searchTerm = ""
  \/ table.searchType = "name" /\ ContainsIgnoringCase(citizen.name, table.searchTerm)
  \/ table.searchType = "aadhar" /\ ContainsRaw(citizen.aadhar_number, table.searchTerm)

RECURSIVE WantedFrom(_, _)
WantedFrom(s, i) ==
  IF i > Len(s) THEN << >>
  ELSE (IF Wanted(s[i]) THEN << s[i] >> ELSE << >>) \o WantedFrom(s, i + 1)

PagesIn(list) == { list[k] : k \in { k \in 1 .. Len(list) : list[k] # Ellipsis } }

WindowOf(T, C) ==
  IF T <= 5 THEN [i \in 1 .. T |-> i]
  ELSE IF C <= 3 THEN << 1, 2, 3, 4, Ellipsis, T >>
  ELSE IF C >= T - 2 THEN << 1, Ellipsis, T - 3, T - 2, T - 1, T >>
  ELSE << 1, Ellipsis, C - 1, C, C + 1, Ellipsis, T >>

WellFormedWindow(list, T, C) ==
  /\ {1, C, T} \subseteq PagesIn(list)
  /\ PagesIn(list) \subseteq 1 .. T
  /\ \A i, j \in 1 .. Len(list) :
        (i < j /\ list[i] # Ellipsis /\ list[j] # Ellipsis) => list[i] < list[j]
  /\ \A k \in 1 .. Len(list) :
        list[k] = Ellipsis =>
          /\ k > 1 /\ k < Len(list)
          /\ list[k - 1] # Ellipsis /\ list[k + 1] # Ellipsis
          /\ list[k + 1] - list[k - 1] >= 2

\* C16: for every page count T and current page C with 1 <= C <= T,
\* getPageNumbers is 1..T when T <= 5, else 1,2,3,4,ellipsis,T when C <= 3,
\* else 1,ellipsis,T-3..T when C >= T-2, else 1,ellipsis,C-1,C,C+1,ellipsis,T;
\* the list holds 1, C and T, its page numbers increase strictly and every
\* ellipsis lies between two page numbers that are at least 2 apart. The list
\* the table renders is the one for its own page count and current page.
C16_PageWindow ==
  /\ \A T \in 1 .. MaxPages : \A C \in 1 .. T :
        /\ PageNumbers(T, C) = WindowOf(T, C)
        /\ WellFormedWindow(PageNumbers(T, C), T, C)
  /\ LET T == totalPages IN
     table.currentPage \in 1 .. T =>
        /\ getPageNumbers = WindowOf(T, table.currentPage)
        /\ WellFormedWindow(getPageNumbers, T, table.currentPage)

C16_Witness ==
  /\ totalPages = 7 /\ table.currentPage = 4 /\ last.act = "ClickPage"
  /\ getPageNumbers = << 1, Ellipsis, 3, 4, 5, Ellipsis, 7 >>

OpIds(S) == { o.id : o \in S }

(* the remote calls of the wizard that a step starts *)
NewWizardCalls == { o \in ops' : o.h \in WizHandlers /\ o.id \notin OpIds(ops) }

TwelveDigits(str) ==
  /\ str # NULL /\ Len(str) = 12
  /\ \A i \in 1 .. 12 : \E n \in 0 .. 9 : Char(str, i) = ToString(n)

AtLeast(str, n) == str # NULL /\ Len(str) >= n

FieldRulesHold(d) ==
  /\ TwelveDigits(d.aadhar_number)
  /\ AtLeast(d.name, 2)
  /\ AtLeast(d.address, 5)
  /\ AtLeast(d.father_name, 2)
  /\ AtLeast(d.mother_name, 2)
  /\ d.age.type = "string" /\ AtLeast(d.age.text, 1)
  /\ \A i \in 1 .. Len(d.age.text) : \E n \in 0 .. 9 : Char(d.age.text, i) = ToString(n)
  /\ d.gender \in {"male", "female", "other"}
  /\ d.marital_status \in {"single", "married", "divorced", "widowed"}
  /\ d.status \in {"alive", "dead"}
  /\ \A f \in {"village_id", "dob", "spouse_name", "education", "occupation", "remarks"} :
        d[f] # NULL

\* C17: a step that starts a remote insert or update of the wizard is taken
\* in the Socioeconomic section with every field of the form passing its
\* rule, and sends the row made of those values; from a form with a field
\* that breaks its rule, in whatever section the field is, no step starts
\* such a call.  An empty spouse name or remarks breaks no rule.
C17_SubmitOnlyValidFromLastSection ==
  [][ /\ \A o \in NewWizardCalls :
            /\ wizard.activeTab = "socioeconomic"
            /\ FieldRulesHold(wizard.values)
            /\ o.req.row = CitizenData(wizard.values)
      /\ ~FieldRulesHold(wizard.values) => NewWizardCalls = {}
      /\ ( /\ CanSubmit /\ opSerial < budget.ops /\ FieldRulesHold(wizard.values)
           /\ wizard.values.spouse_name = "" /\ wizard.values.remarks = "" )
           => ENABLED WizardSubmit(wizard.values) ]_vars

C17_Witness ==
  /\ last.act = "WizardSubmit"
  /\ wizard.activeTab = "socioeconomic"
  /\ wizard.values.spouse_name = "" /\ wizard.values.remarks = ""
  /\ wizard.values.name = "n2"
  /\ \E o \in ops : o.h = "wizInsert" /\ o.st = "sent" /\ o.req.row.spouse_name = NULL

Adjacent(a, b) ==
  \/ {a, b} = {"personal", "family"}
  \/ {a, b} = {"family", "socioeconomic"}

\* C18: while the wizard stays open, every change of its section leads to a
\* section next to the one left, and from every section the move to each of
\* its neighbours is possible whatever the form holds.
C18_LinearSections ==
  [][ /\ ( /\ activeTab = "citizens" /\ activeTab' = "citizens"
           /\ wizard'.activeTab # wizard.activeTab )
           => Adjacent(wizard.activeTab, wizard'.activeTab)
      /\ (WizardMounted /\ uiSteps < budget.ui)
           => /\ wizard.activeTab # "socioeconomic" => ENABLED WizardNextSection
              /\ wizard.activeTab # "personal" => ENABLED WizardBack ]_vars

Identifiers(cs) == { cs[i].aadhar_number : i \in 1 .. Len(cs) }

\* C19: the remote call a wizard submit starts is an update, keyed by the
\* identifier the wizard was opened with, exactly when it was opened with one,
\* and an insert exactly when it was opened without; the row an update sends
\* carries the identifier of its key, and an update the store performs leaves
\* the identifiers of the stored records as they were.
C19_UpdateIffOpenedWithIdentifier ==
  [][ /\ \A o \in NewWizardCalls :
            /\ (o.h = "wizUpdate") = (wizard.opened # "")
            /\ (o.h = "wizInsert") = (wizard.opened = "")
            /\ o.req.call = (IF wizard.opened # "" THEN "updateCitizen" ELSE "insertCitizen")
            /\ o.h = "wizUpdate" =>
                  /\ o.req.aadhar = wizard.opened
                  /\ o.req.row.aadhar_number = wizard.opened
      /\ (last'.act = "StoreExec" /\ last'.h = "wizUpdate")
           => /\ Identifiers(rCitizens') = Identifiers(rCitizens)
              /\ Len(rCitizens') = Len(rCitizens) ]_vars

C19_Witness ==
  /\ last.act = "StoreExec" /\ last.h = "wizUpdate" /\ last.ok
  /\ wizard.opened = "111111111111"
  /\ Lookup(rCitizens, "111111111111").name = "n2"
  /\ Len(rCitizens) = 1

(* the continuation of the wizard's handleSubmit after its awaited call, in *)
(* a wizard that is still mounted                                            *)
SubmitEnded(h, okv) ==
  /\ last'.act = "WizardResume" /\ last'.h = h /\ last'.ok = okv
  /\ \E o \in ops : o.h = h /\ o.st # "sent" /\ o.live /\ o \notin ops'

\* C20: the step that ends a successful create leaves the wizard in the state
\* it starts in, section Personal with every field at its default value; the
\* step that ends a successful update, a failed create or a failed update,
\* and a submit the validation rejects, leave the section and the field
\* values as they were.
C20_ResetOnlyOnCreate ==
  [][ /\ SubmitEnded("wizInsert", TRUE) =>
            /\ wizard'.activeTab = "personal"
            /\ wizard'.values = DefaultValues(editingCitizen)
      /\ ( \/ SubmitEnded("wizUpdate", TRUE)
           \/ SubmitEnded("wizInsert", FALSE)
           \/ SubmitEnded("wizUpdate", FALSE)
           \/ last'.act = "WizardInvalidSubmit" )
           => wizard' = wizard ]_vars

ResumeActs ==
  {"WizardResume", "HomeAddCitizenResume", "HomeUpdateCitizenResume",
   "HomeDeleteCitizenResume", "VMResume", "HomeVillageResume"}

\* C21: the step in which a handler continues after its remote insert, update
\* or delete failed shows the user an error notification, and starts no
\* remote call again.
C21_FailureNotifiesOnce ==
  [][ \A o \in ops :
        (Acting(o) /\ o.st = "err" /\ last'.act \in ResumeActs)
          => /\ last'.notice = "error"
             /\ OpIds(ops') \subseteq OpIds(ops) \ {o.id} ]_vars

VillageIdsOf(vs) == { vs[i].id : i \in 1 .. Len(vs) }

\* C22: in every state, the village_id of each citizen in Home's citizens is
\* the id of a village in Home's villages.
C22_CitizensReferenceCachedVillages ==
  \A i \in 1 .. Len(citizens) : citizens[i].village_id \in VillageIdsOf(villages)

NoRepeat(keys) == \A i, j \in 1 .. Len(keys) : keys[i] = keys[j] => i = j

AadharsOf(cs) == [i \in 1 .. Len(cs) |-> cs[i].aadhar_number]

\* C23: in every state Home's citizens holds no two entries with the same
\* aadhar_number, and neither Home's villages nor the village-management list
\* holds two entries with the same village id.
C23_KeysUnique ==
  /\ NoRepeat(AadharsOf(citizens))
  /\ NoRepeat([i \in 1 .. Len(villages) |-> villages[i].id])
  /\ NoRepeat([i \in 1 .. Len(vmVillages) |-> vmVillages[i].village_id])

SixDigits(str) ==
  /\ str # NULL /\ Len(str) = 6
  /\ \A i \in 1 .. 6 : \E n \in 0 .. 9 : Char(str, i) = ToString(n)

VillageFormValid(data) ==
  /\ AtLeast(data.village_name, 2) /\ AtLeast(data.district_name, 2)
  /\ SixDigits(data.pincode)

(* the remote calls of the village forms that a step starts *)
NewVillageCalls == { o \in ops' : o.h \in {"vmAdd", "vmEdit"} /\ o.id \notin OpIds(ops) }

\* C24: a step that starts a village insert or update of the village forms
\* sends a pincode of exactly six digits; a form that fails validation can
\* start no call, its submit leaves the pending calls and the store as they
\* are; and every village row that such a call writes has a six-digit pincode.
C24_VillageWritesValidated ==
  [][ /\ \A o \in NewVillageCalls : SixDigits(o.req.pincode) /\ AtLeast(o.req.name, 2)
      /\ \A data \in VillageForms :
            ~VillageFormValid(data) =>
               ~ENABLED VMAddVillage(data) /\ ~ENABLED VMEditVillage(data)
      /\ last'.act = "VMInvalidSubmit" =>
            ops' = ops /\ rVillages' = rVillages /\ vmVillages' = vmVillages
      /\ (last'.act = "StoreExec" /\ last'.h \in {"vmAdd", "vmEdit"}) =>
            \A v \in Range(rVillages') \ Range(rVillages) : SixDigits(v.pincode) ]_vars

C24_Witness ==
  /\ last.act = "StoreExec" /\ last.h = "vmEdit" /\ last.ok
  /\ \E v \in Range(rVillages) :
        v.village_id = 1 /\ v.village_name = "n2" /\ v.pincode = DefaultPincode

(* the store answers call o in this step *)
Answered(o) == o \in ops /\ o.st = "sent" /\ o \notin ops' /\ last'.act = "StoreExec"

\* C25: the store rejects the wizard's insert of a citizen whose identifier
\* it already holds and keeps its citizens as they are; the wizard's
\* continuation after that failure sets the wizard's error, keeps the form
\* values, leaves Home's citizens unchanged and starts no further call; and
\* the stored citizens never repeat an identifier.
C25_DuplicateCreateRejected ==
  [][ /\ \A o \in ops :
            (Answered(o) /\ o.h = "wizInsert" /\ HasCitizen(o.req.row.aadhar_number))
              => ~last'.ok /\ rCitizens' = rCitizens
      /\ \A o \in ops :
            (Acting(o) /\ last'.act = "WizardResume" /\ o.h = "wizInsert" /\ o.st = "err" /\ o.live)
              => /\ wizError' = "error"
                 /\ wizard' = wizard
                 /\ citizens' = citizens
                 /\ OpIds(ops') \subseteq OpIds(ops) \ {o.id}
      /\ NoRepeat(AadharsOf(rCitizens')) ]_vars

C25_Witness ==
  /\ last.act = "WizardResume" /\ last.h = "wizInsert" /\ ~last.ok
  /\ last.key = "111111111111"
  /\ wizError = "error"
  /\ wizard.values.aadhar_number = "111111111111" /\ wizard.values.name = "n2"
  /\ rCitizens = << CitizenRow("111111111111", "n1", 1) >>
  /\ citizens = rCitizens

(* VillageManagement is mounted and shows the villages its own fetch loaded *)
ViewLoaded == mounted /\ activeTab = "villages" /\ vmFetch = "idle" /\ vmVillages # << >>

(* every notification delivered, every reload and remote call completed *)
Processed == feed = << >> /\ reloads = {} /\ ops = {} /\ ~fetchFailed

\* C26: whenever the village-management view is open with its list loaded
\* and every notification, reload and pending call has been processed, the
\* view's list equals the store's villages table.
C26_ViewReflectsRemote == (ViewLoaded /\ Processed) => vmVillages = rVillages

MatchingAdmins(username, password) ==
  { a \in Range(Admins) : a.username = username /\ a.password = password }

\* C27: a step writes session keys only as the continuation of a lookup whose
\* submitted username and password both equal those of one stored admin, and
\* then writes isAuthenticated = "true" with that admin's id and username; a
\* lookup that reached the store returns a record exactly when such an admin
\* exists, and the continuation of a lookup that returned a record writes the
\* keys; the continuation of any other lookup leaves the storage as it was and
\* shows the one invalid-credentials message; logout leaves none of the keys.
C27_SessionIffCredentialsMatch ==
  [][ /\ localStorage' # localStorage /\ localStorage' # NoStorage =>
            /\ last'.act = "LoginResume"
            /\ \E a \in MatchingAdmins(login.call.username, login.call.password) :
                  /\ localStorage'.isAuthenticated = "true"
                  /\ localStorage'.adminId = ToString(a.id)
                  /\ localStorage'.adminUsername = a.username
      /\ (last'.act = "AdminsSelect" /\ last'.ok) =>
            ( login'.call.data # NoAdmin
                <=> MatchingAdmins(login.call.username, login.call.password) # {} )
      /\ (last'.act = "LoginResume" /\ login.call.data # NoAdmin) =>
            localStorage'.isAuthenticated = "true"
      /\ ( /\ last'.act = "LoginResume"
           /\ \/ login.call.data = NoAdmin
              \/ MatchingAdmins(login.call.username, login.call.password) = {} ) =>
            /\ localStorage' = localStorage
            /\ localStorage'.isAuthenticated # "true"
            /\ login'.error = InvalidCredentials
      /\ last'.act = "Logout" => localStorage' = NoStorage ]_vars

C27_Witness ==
  /\ last.act = "LoginResume" /\ last.ok
  /\ location = "/"
  /\ localStorage = [isAuthenticated |-> "true", adminId |-> "2", adminUsername |-> "clerk"]

(* the entries of a collection under keys other than k *)
OtherCitizens(cs, k) == SelectSeq(cs, LAMBDA c : c.aadhar_number # k)
OtherVillages(vs, id) == SelectSeq(vs, LAMBDA v : v.village_id # id)

CitizenApplies == {"HomeAddCitizenResume", "HomeUpdateCitizenResume", "HomeDeleteCitizenResume"}

\* C28: the step in which a handler applies its acknowledged create, update
\* or delete of key k leaves every entry under another key as it was just
\* before that step: in Home's citizens for the citizen handlers, in the
\* village-management list for its village handlers.
C28_ApplyKeepsOtherEntries ==
  [][ \A o \in ops :
        (Acting(o) /\ o.st = "ok") =>
          /\ last'.act \in CitizenApplies =>
                OtherCitizens(citizens', ReqKey(o.req)) = OtherCitizens(citizens, ReqKey(o.req))
          /\ (last'.act = "VMResume" /\ o.live) =>
                OtherVillages(vmVillages', o.sel.village_id)
                  = OtherVillages(vmVillages, o.sel.village_id) ]_vars

(* the remote writes that are pending for submission number n *)
PendingWrites(S, n) == { o \in S : o.id = n /\ o.st = "sent" }

\* C29: the step in which the wizard continues after the store acknowledged
\* the insert or update of a submission leaves no further write of that
\* submission pending: the one acknowledged request is all the submission
\* sends.
C29_OneWritePerSubmission ==
  [][ \A o \in ops :
        (Acting(o) /\ last'.act = "WizardResume" /\ o.h \in WizHandlers /\ o.st = "ok")
          => PendingWrites(ops', o.id) = {} ]_vars

\* C30: the Citizens tab of Home's tab bar, the one way to open the wizard
\* without choosing a citizen to edit, opens it in create mode also after a
\* citizen has been opened for editing: the wizard it mounts carries no
\* identifier, and neither does the initialData a later submit branches on.
C30_TabOpensCreateMode ==
  [][ (last'.act = "SelectTab" /\ activeTab' = "citizens")
        => wizard'.opened = "" /\ editingCitizen'.aadhar_number = "" ]_vars

====
